---- MODULE Spec2Model ----
(***************************************************************************)
(* Model of the payment module of the Stripe Terminal backend              *)
(* (modules/payment/controller.js and modules/payment/services.js):        *)
(*   - create-intent-from-products: invoice based payment intent           *)
(*     construction with compensating deletes,                             *)
(*   - payment statistics: charge pagination, grouping by UTC day,         *)
(*     day filling and summary,                                            *)
(*   - refunds.                                                            *)
(* Every awaited remote call is one step of a request; the remote          *)
(* platform's state (customers, invoices, invoice items, payment intents,  *)
(* charges, refunds) is part of the model's state.                         *)
(***************************************************************************)
EXTENDS Integers, Sequences, FiniteSets, TLC

VARIABLES
  user,            \* the row prisma.user.findUnique returns for the caller
  customers,       \* remote customers of the connected account
  invoices,        \* remote invoices, one slot per request
  invoiceItems,    \* remote invoice items, in creation order
  paymentIntents,  \* remote payment intents, in creation order
  pr,              \* create-intent-from-products requests: locals and position
  charges,         \* remote charges of the connected account, newest first
  tz,              \* the time zone of the server process
  st,              \* the statistics request: locals and position
  rf,              \* refund requests: locals and position
  refunds,         \* the refunds.create calls received upstream, in order
  remote,          \* per request, the calls it has issued so far, in order
  ci,              \* create-intent requests: locals and position
  tx,              \* the transactions request: locals and position
  terminal,        \* remote Terminal objects: the reader, its location, configurations
  gr               \* one call of groupChargesByDateService: argument and result

vars == <<user, customers, invoices, invoiceItems, paymentIntents, pr, charges, tz, st,
          rf, refunds, remote, ci, tx, terminal, gr>>

\* what the create-intent-from-products steps never touch
notProducts == <<charges, tz, st, rf, refunds, ci, tx, terminal, gr>>

\* what the refund steps never touch
notRefund == <<customers, invoices, invoiceItems, paymentIntents, pr, tz, st, ci, tx,
               terminal, gr>>

\* what the create-intent steps never touch
notIntent == <<customers, invoices, invoiceItems, pr, charges, tz, st, rf, refunds, tx,
               gr>>

\* what the statistics steps never touch
notStats == <<user, customers, invoices, invoiceItems, paymentIntents, pr, charges, tz,
              rf, refunds, ci, tx, terminal, gr>>

\* what the transactions steps never touch
notTransactions == <<user, customers, invoices, invoiceItems, paymentIntents, pr, charges,
                     tz, st, rf, refunds, ci, terminal, gr>>

----------------------------------------------------------------------------
(* Bounds of the model *)

MaxCart == 2

MaxCharges == 3

\* the longest cart of the batch specification
MaxItems == 3

\* the longest argument of the grouping specification
MaxGroup == 3

----------------------------------------------------------------------------
(* Small helpers *)

RECURSIVE SumSeq(_)
SumSeq(s) == IF s = <<>> THEN 0 ELSE Head(s) + SumSeq(Tail(s))

SeqsUpTo(S, n) == UNION {[1..m -> S] : m \in 0..n}

Reqs == {1, 2}

UserId == "user_1"

\* the requests of the model: the operation and the request number
RequestKeys ==
  {<<op, r>> : op \in {"products", "statistics", "refund", "intent", "transactions"}, r \in Reqs}

\* the one read of validateStripeAccount; every other call is a call to the
\* remote platform
AccountRead == "prisma.user.findUnique"

NoCalls == [key \in RequestKeys |-> <<>>]

\* the request issues these calls
Issues(key, calls) == remote' = [remote EXCEPT ![key] = @ \o calls]

----------------------------------------------------------------------------
(* Errors and responses *)

NoError == [message |-> <<>>, statusCode |-> 0, code |-> "", type |-> ""]

\* new Error(message): no statusCode, no code
NewError(msg) == [message |-> msg, statusCode |-> 0, code |-> "", type |-> ""]

\* an error object with bolted-on statusCode and code
ErrorWith(msg, status, code) ==
  [message |-> msg, statusCode |-> status, code |-> code, type |-> ""]

NoResponse == [http |-> 0, status |-> "", message |-> <<>>, hasCode |-> FALSE,
               code |-> "", data |-> <<>>]

successResponse(data, message) ==
  [http |-> 200, status |-> "success", message |-> message, hasCode |-> FALSE,
   code |-> "", data |-> data]

\* res.status(400).json(errorResponse(message, code))
errorResponse(message, code) ==
  [http |-> 400, status |-> "error", message |-> message, hasCode |-> TRUE,
   code |-> code, data |-> <<>>]

StartsWith(str, prefixes) == str \in prefixes

\* codes of the model that start with "P" (Prisma error codes)
PrismaCodes == {"P2002", "P1001"}

\* the global error handler: what next(error) sends
errorHandler(err) ==
  IF err.type # "" /\ err.type \in {"StripeCardError", "StripeInvalidRequestError"}
  THEN [http |-> 400, status |-> "error",
        message |-> IF err.message = <<>> THEN <<"Stripe API error">> ELSE err.message,
        hasCode |-> TRUE, code |-> err.code, data |-> <<>>]
  ELSE IF err.code # "" /\ StartsWith(err.code, PrismaCodes)
  THEN [http |-> 400, status |-> "error", message |-> <<"Database error">>,
        hasCode |-> TRUE, code |-> err.code, data |-> <<>>]
  ELSE [http |-> IF err.statusCode = 0 THEN 500 ELSE err.statusCode,
        status |-> "error",
        message |-> IF err.message = <<>> THEN <<"Internal server error">>
                    ELSE err.message,
        hasCode |-> FALSE, code |-> "", data |-> <<>>]

----------------------------------------------------------------------------
(* The remote price catalogue of the connected account *)

PriceIds == {"price_A", "price_B", "price_F", "price_R", "price_X"}

\* prices.retrieve fails for a price the account does not have
KnownPrices == {"price_A", "price_B", "price_F", "price_R"}

PriceType(p) == IF p = "price_R" THEN "recurring" ELSE "one_time"

\* price_F is a one-time price of 0
UnitAmount(p) ==
  CASE p = "price_A" -> 300
    [] p = "price_B" -> 450
    [] p = "price_F" -> 0
    [] OTHER -> 900

----------------------------------------------------------------------------
(* create-intent-from-products: request state *)

\* what a request body can carry in the model
CartItemChoices == [priceId : PriceIds, quantity : {0, 1, 2}]

TipChoices == {0, 200}

EmailChoices == {"", "a@x.io"}

Currencies == {"usd", "eur"}

\* tipAmount is the number the body's value stands for and tipKind its typeof:
\* 0 of kind "boolean" is false, 0 of kind "string" is the empty string, 200
\* of kind "string" is the string '200'
IdleRequest ==
  [pc |-> "off", cartItems |-> <<>>, tipAmount |-> 0, tipKind |-> "number", email |-> "",
   connectionType |-> "tapToPay",
   accountId |-> "", customerId |-> "", invoiceId |-> 0,
   invoiceItemIds |-> <<>>, k |-> 0, j |-> 0,
   error |-> NoError, failKind |-> "",
   finalizedInvoice |-> [id |-> 0, total |-> 0, currency |-> "", lines |-> <<>>],
   paymentIntentId |-> 0, clientSecret |-> "",
   response |-> NoResponse]

NewRequest(cart, tip, email) ==
  [IdleRequest EXCEPT !.pc = "start", !.cartItems = cart, !.tipAmount = tip,
                      !.email = email]

\* the request ends: the controller sends `resp`
Respond(r, resp) ==
  pr' = [pr EXCEPT ![r].pc = "done", ![r].response = resp]

\* catch (error) { next(error) } of the controller
Fail(r, err) ==
  pr' = [pr EXCEPT ![r].pc = "done", ![r].error = err,
                   ![r].response = errorHandler(err)]

----------------------------------------------------------------------------
(* Structural validation of the body (controller, before any await) *)

\* a cart item that is null in the body
NullItem == [isNull |-> TRUE]

IsNull(item) == "isNull" \in DOMAIN item

RECURSIVE FirstBadItem(_, _)
\* the first index i >= from whose item fails the shape checks, 0 when none;
\* the result is <<i, "priceId" | "quantity">>, and <<i, "TypeError">> for an
\* item that is null, whose priceId cannot be read
FirstBadItem(cart, from) ==
  IF from > Len(cart) THEN <<0, "">>
  ELSE IF IsNull(cart[from]) THEN <<from, "TypeError">>
  ELSE IF cart[from].priceId = "" THEN <<from, "priceId">>
  ELSE IF cart[from].quantity = 0 \/ cart[from].quantity <= 0 THEN <<from, "quantity">>
  ELSE FirstBadItem(cart, from + 1)

\* the validation loop throws: it reads the priceId of an item that is null
BodyThrows(cart) == FirstBadItem(cart, 1)[2] = "TypeError"

\* the 400 the controller returns for a malformed body, NoResponse when it
\* passes; the tip is checked only when it is truthy
ValidateProductsBody(cart, tip, tipKind) ==
  IF Len(cart) = 0
  THEN errorResponse(<<"cartItems must be a non-empty array">>, "invalid-argument")
  ELSE IF FirstBadItem(cart, 1)[1] # 0
  THEN errorResponse(<<"cartItems[i]", FirstBadItem(cart, 1)[2]>>, "invalid-argument")
  ELSE IF tip # 0 /\ (tipKind # "number" \/ tip < 0)
  THEN errorResponse(<<"tipAmount must be a non-negative number">>, "invalid-argument")
  ELSE NoResponse

PBegin(r) ==
  /\ pr[r].pc = "start"
  /\ LET bad == ValidateProductsBody(pr[r].cartItems, pr[r].tipAmount, pr[r].tipKind)
     IN IF BodyThrows(pr[r].cartItems)
        THEN Fail(r, NewError(<<"Cannot read properties of null (reading 'priceId')">>))
        ELSE IF bad # NoResponse
        THEN Respond(r, bad)
        ELSE pr' = [pr EXCEPT ![r].pc = "account"]
  /\ UNCHANGED remote
  /\ UNCHANGED <<notProducts, user, customers, invoices, invoiceItems, paymentIntents>>

----------------------------------------------------------------------------
(* validateStripeAccount *)

\* the error validateStripeAccount throws for this user row, NoError when it passes
validateStripeAccount(u) ==
  IF u.stripeAccountId = ""
  THEN ErrorWith(<<"Stripe account not connected">>, 400, "failed-precondition")
  ELSE IF u.stripeAccountStatus # "active"
  THEN ErrorWith(<<"Stripe account is not active">>, 400, "failed-precondition")
  ELSE NoError

PValidateAccount(r) ==
  /\ pr[r].pc = "account"
  /\ IF validateStripeAccount(user) # NoError
     THEN Fail(r, validateStripeAccount(user))
     ELSE pr' = [pr EXCEPT ![r].pc = "tipcfg", ![r].accountId = user.stripeAccountId]
  /\ Issues(<<"products", r>>, <<AccountRead>>)
  /\ UNCHANGED <<notProducts, user, customers, invoices, invoiceItems, paymentIntents>>

\* ensureLocationTippingConfig for a reader that is not an internet reader:
\* it returns at once, with no remote call
PEnsureTippingSkip(r) ==
  /\ pr[r].pc = "tipcfg"
  /\ pr[r].connectionType # "internet"
  /\ pr' = [pr EXCEPT ![r].pc = "customer"]
  /\ UNCHANGED remote
  /\ UNCHANGED <<notProducts, user, customers, invoices, invoiceItems, paymentIntents>>

----------------------------------------------------------------------------
(* Step 1: findOrCreateCustomerService *)

RECURSIVE FirstCustomerWithEmail(_, _, _)
\* customers.list({email, limit: 1}): the id of the first match, "" when none
FirstCustomerWithEmail(cs, email, i) ==
  IF i > Len(cs) THEN ""
  ELSE IF cs[i].email = email THEN cs[i].id
  ELSE FirstCustomerWithEmail(cs, email, i + 1)

NewCustomerId(cs) == <<"cus", Len(cs) + 1>>

\* the guard and the customers.list call
PFindCustomer(r) ==
  /\ pr[r].pc = "customer"
  /\ IF pr[r].email = ""
     THEN \* thrown inside the try, caught and thrown again as a plain Error
          Fail(r, NewError(<<"Email is required to create a customer">>))
     ELSE \/ \* the list call fails
             Fail(r, NewError(<<"upstream", "customers.list">>))
          \/ \* the list call answers
             LET found == FirstCustomerWithEmail(customers, pr[r].email, 1)
             IN IF found # ""
                THEN pr' = [pr EXCEPT ![r].pc = "invoice", ![r].customerId = found]
                ELSE pr' = [pr EXCEPT ![r].pc = "custCreate"]
  /\ Issues(<<"products", r>>, IF pr[r].email = "" THEN <<>> ELSE <<"customers.list">>)
  /\ UNCHANGED <<notProducts, user, customers, invoices, invoiceItems, paymentIntents>>

\* the customers.create call
PCreateCustomer(r) ==
  /\ pr[r].pc = "custCreate"
  /\ \/ /\ Fail(r, NewError(<<"upstream", "customers.create">>))
        /\ UNCHANGED customers
     \/ /\ customers' = Append(customers,
                               [id |-> NewCustomerId(customers),
                                email |-> pr[r].email, userId |-> UserId])
        /\ pr' = [pr EXCEPT ![r].pc = "invoice",
                            ![r].customerId = NewCustomerId(customers)]
  /\ Issues(<<"products", r>>, <<"customers.create">>)
  /\ UNCHANGED <<notProducts, user, invoices, invoiceItems, paymentIntents>>

----------------------------------------------------------------------------
(* Step 2: createInvoiceService *)

NoInvoice ==
  [status |-> "none", customer |-> "", currency |-> "", total |-> 0,
   lines |-> <<>>, payment |-> 0]

PCreateInvoice(r) ==
  /\ pr[r].pc = "invoice"
  /\ \/ /\ Fail(r, NewError(<<"upstream", "invoices.create">>))
        /\ UNCHANGED invoices
     \/ \E cur \in Currencies :
          /\ invoices' = [invoices EXCEPT ![r] =
                            [status |-> "draft", customer |-> pr[r].customerId,
                             currency |-> cur, total |-> 0, lines |-> <<>>,
                             payment |-> 0]]
          /\ pr' = [pr EXCEPT ![r].pc = "price", ![r].invoiceId = r, ![r].k = 1]
  /\ Issues(<<"products", r>>, <<"invoices.create">>)
  /\ UNCHANGED <<notProducts, user, customers, invoiceItems, paymentIntents>>

----------------------------------------------------------------------------
(* Step 3: createInvoiceItemsService *)

\* variant: every retrieved price passes
validatePriceAnyType(priceId, type) == NoError

\* validatePriceIsOneTime once prices.retrieve has answered with a price of
\* this type: the error it throws, NoError when the price passes
validatePriceIsOneTime(priceId, type) ==
  IF type # "one_time"
  THEN ErrorWith(<<"Price", priceId, "is a recurring price">>, 400, "invalid-argument")
  ELSE NoError

\* the error createInvoiceItemsService throws again after the clean-up
enhancedError(item, error) ==
  [message |-> <<"Invalid priceId:", item.priceId>> \o
               (IF error.message = <<>> THEN <<"Unknown error">> ELSE error.message),
   statusCode |-> IF error.statusCode = 0 THEN 400 ELSE error.statusCode,
   code |-> IF error.code = "" THEN "invalid-argument" ELSE error.code,
   type |-> ""]

\* variant: the catch block without its clean-up loop
CatchItemErrorNoCleanup(r, error, kind) ==
  pr' = [pr EXCEPT ![r].pc = "done", ![r].failKind = kind,
                   ![r].error = enhancedError(pr[r].cartItems[pr[r].k], error),
                   ![r].response =
                     errorHandler(enhancedError(pr[r].cartItems[pr[r].k], error))]

\* entering the catch block of the loop with `error` for item k: the clean-up
\* loop runs over invoiceItemIds; with none created the error is thrown at once
CatchItemError(r, error, kind) ==
  IF pr[r].invoiceItemIds = <<>>
  THEN pr' = [pr EXCEPT ![r].pc = "done", ![r].failKind = kind,
                        ![r].error = enhancedError(pr[r].cartItems[pr[r].k], error),
                        ![r].response =
                          errorHandler(enhancedError(pr[r].cartItems[pr[r].k], error))]
  ELSE pr' = [pr EXCEPT ![r].pc = "rollback", ![r].failKind = kind,
                        ![r].error = error, ![r].j = 1]

\* validatePriceIsOneTime(accountId, item.priceId) for the item at position k
PValidatePrice(r) ==
  /\ pr[r].pc = "price"
  /\ LET item == pr[r].cartItems[pr[r].k]
     IN \/ \* prices.retrieve fails: unknown price, or the platform is unavailable
           CatchItemError(r, NewError(<<"upstream", "prices.retrieve">>), "retrieve")
        \/ /\ item.priceId \in KnownPrices
           /\ IF validatePriceIsOneTime(item.priceId, PriceType(item.priceId)) # NoError
              THEN CatchItemError(r, validatePriceIsOneTime(item.priceId,
                                                            PriceType(item.priceId)),
                                  "type")
              ELSE pr' = [pr EXCEPT ![r].pc = "item"]
  /\ Issues(<<"products", r>>, <<"prices.retrieve">>)
  /\ UNCHANGED <<notProducts, user, customers, invoices, invoiceItems, paymentIntents>>

\* where the controller goes once every cart item has its invoice item
AfterItems(tip) == IF tip > 0 THEN "tip" ELSE "finalize"

\* createInvoiceItemService for the item at position k, and the push of its id
PCreateItem(r) ==
  /\ pr[r].pc = "item"
  /\ LET item == pr[r].cartItems[pr[r].k]
         id   == Len(invoiceItems) + 1
     IN \/ /\ CatchItemError(r, NewError(<<"upstream", "invoiceItems.create">>), "create")
           /\ UNCHANGED invoiceItems
        \/ /\ invoiceItems' = Append(invoiceItems,
                [id |-> id, invoice |-> pr[r].invoiceId, customer |-> pr[r].customerId,
                 price |-> item.priceId, quantity |-> item.quantity,
                 amount |-> UnitAmount(item.priceId) * item.quantity,
                 kind |-> "price", deleted |-> FALSE, delCalls |-> 0,
                 delFailures |-> 0])
           /\ IF pr[r].k = Len(pr[r].cartItems)
              THEN pr' = [pr EXCEPT ![r].pc = AfterItems(pr[r].tipAmount),
                                    ![r].invoiceItemIds = Append(@, id)]
              ELSE pr' = [pr EXCEPT ![r].pc = "price", ![r].k = @ + 1,
                                    ![r].invoiceItemIds = Append(@, id)]
  /\ Issues(<<"products", r>>, <<"invoiceItems.create">>)
  /\ UNCHANGED <<notProducts, user, customers, invoices, paymentIntents>>

\* variant: the clean-up loop runs from the item created last to the first
PRollbackDeleteReversed(r) ==
  /\ pr[r].pc = "rollback"
  /\ LET itemId == pr[r].invoiceItemIds[Len(pr[r].invoiceItemIds) + 1 - pr[r].j]
     IN \/ invoiceItems' = [invoiceItems EXCEPT ![itemId].deleted = TRUE,
                                                ![itemId].delCalls = @ + 1]
        \/ invoiceItems' = [invoiceItems EXCEPT ![itemId].delCalls = @ + 1,
                                                ![itemId].delFailures = @ + 1]
  /\ IF pr[r].j = Len(pr[r].invoiceItemIds)
     THEN pr' = [pr EXCEPT ![r].pc = "done", ![r].j = @ + 1,
                           ![r].error = enhancedError(pr[r].cartItems[pr[r].k], pr[r].error),
                           ![r].response =
                             errorHandler(enhancedError(pr[r].cartItems[pr[r].k],
                                                        pr[r].error))]
     ELSE pr' = [pr EXCEPT ![r].j = @ + 1]
  /\ Issues(<<"products", r>>, <<"invoiceItems.del">>)
  /\ UNCHANGED <<notProducts, user, customers, invoices, paymentIntents>>

\* variant: a delete that fails is thrown out of the clean-up loop
PRollbackDeleteThrowing(r) ==
  /\ pr[r].pc = "rollback"
  /\ LET itemId == pr[r].invoiceItemIds[pr[r].j]
         thrown == enhancedError(pr[r].cartItems[pr[r].k], pr[r].error)
         delError == NewError(<<"upstream", "invoiceItems.del">>)
     IN \/ /\ invoiceItems' = [invoiceItems EXCEPT ![itemId].deleted = TRUE,
                                                   ![itemId].delCalls = @ + 1]
           /\ IF pr[r].j = Len(pr[r].invoiceItemIds)
              THEN pr' = [pr EXCEPT ![r].pc = "done", ![r].j = @ + 1,
                                    ![r].error = thrown,
                                    ![r].response = errorHandler(thrown)]
              ELSE pr' = [pr EXCEPT ![r].j = @ + 1]
        \/ /\ invoiceItems' = [invoiceItems EXCEPT ![itemId].delCalls = @ + 1,
                                                   ![itemId].delFailures = @ + 1]
           /\ pr' = [pr EXCEPT ![r].pc = "done", ![r].j = @ + 1,
                               ![r].error = delError,
                               ![r].response = errorHandler(delError)]
  /\ Issues(<<"products", r>>, <<"invoiceItems.del">>)
  /\ UNCHANGED <<notProducts, user, customers, invoices, paymentIntents>>

\* one turn of the clean-up loop: deleteInvoiceItemService for invoiceItemIds[j];
\* a failed delete is logged and the loop goes on; after the last one the
\* enhanced error is thrown
PRollbackDelete(r) ==
  /\ pr[r].pc = "rollback"
  /\ LET itemId == pr[r].invoiceItemIds[pr[r].j]
     IN \/ invoiceItems' = [invoiceItems EXCEPT ![itemId].deleted = TRUE,
                                                ![itemId].delCalls = @ + 1]
        \/ invoiceItems' = [invoiceItems EXCEPT ![itemId].delCalls = @ + 1,
                                                ![itemId].delFailures = @ + 1]
  /\ IF pr[r].j = Len(pr[r].invoiceItemIds)
     THEN pr' = [pr EXCEPT ![r].pc = "done", ![r].j = @ + 1,
                           ![r].error = enhancedError(pr[r].cartItems[pr[r].k], pr[r].error),
                           ![r].response =
                             errorHandler(enhancedError(pr[r].cartItems[pr[r].k],
                                                        pr[r].error))]
     ELSE pr' = [pr EXCEPT ![r].j = @ + 1]
  /\ Issues(<<"products", r>>, <<"invoiceItems.del">>)
  /\ UNCHANGED <<notProducts, user, customers, invoices, paymentIntents>>

----------------------------------------------------------------------------
(* Step 4: the tip line item *)

\* addTipLineItemService(accountId, invoiceId, customerId, tipAmount, userId):
\* one further invoice item of tipAmount minor units on the invoice
addTipLineItemService(items, invoiceId, customerId, tipAmount) ==
  Append(items,
         [id |-> Len(items) + 1, invoice |-> invoiceId, customer |-> customerId,
          price |-> "", quantity |-> 1, amount |-> tipAmount,
          kind |-> "tip", deleted |-> FALSE, delCalls |-> 0,
          delFailures |-> 0])

PAddTip(r) ==
  /\ pr[r].pc = "tip"
  /\ \/ /\ Fail(r, NewError(<<"upstream", "invoiceItems.create">>))
        /\ UNCHANGED invoiceItems
     \/ /\ invoiceItems' = addTipLineItemService(invoiceItems, pr[r].invoiceId,
                                                 pr[r].customerId, pr[r].tipAmount)
        /\ pr' = [pr EXCEPT ![r].pc = "finalize"]
  /\ Issues(<<"products", r>>, <<"invoiceItems.create">>)
  /\ UNCHANGED <<notProducts, user, customers, invoices, paymentIntents>>

----------------------------------------------------------------------------
(* Step 5: finalizeInvoiceService *)

RECURSIVE InvoiceLines(_, _, _)
\* the remote platform's view of an invoice: the ids of the items attached to
\* it that have not been deleted, in creation order
InvoiceLines(items, inv, i) ==
  IF i > Len(items) THEN <<>>
  ELSE IF items[i].invoice = inv /\ ~items[i].deleted
       THEN <<i>> \o InvoiceLines(items, inv, i + 1)
       ELSE InvoiceLines(items, inv, i + 1)

RECURSIVE LinesTotal(_, _)
LinesTotal(items, lines) ==
  IF lines = <<>> THEN 0
  ELSE items[Head(lines)].amount + LinesTotal(items, Tail(lines))

\* invoices.finalizeInvoice on the platform: the invoice becomes open, with
\* its lines and their total
FinalizedRemote(inv, items, id) ==
  [inv EXCEPT !.status = "open",
              !.lines = InvoiceLines(items, id, 1),
              !.total = LinesTotal(items, InvoiceLines(items, id, 1))]

\* invoices.finalizeInvoice answering with an invoice that lists no line: the
\* items were created but are not attached to the invoice
FinalizedWithoutLines(inv) ==
  [inv EXCEPT !.status = "open", !.lines = <<>>, !.total = 0]

\* variant: only the lines of the finalized invoice are checked
CheckFinalizedLinesOnly(finalized) ==
  IF Len(finalized.lines) = 0
  THEN ErrorWith(<<"Invoice items were created but not attached to invoice">>, 500, "")
  ELSE NoError

\* the checks of finalizeInvoiceService on the finalized invoice: the error
\* it throws, NoError when it returns the invoice
CheckFinalized(finalized) ==
  IF Len(finalized.lines) = 0
  THEN ErrorWith(<<"Invoice items were created but not attached to invoice">>, 500, "")
  ELSE IF finalized.total = 0
  THEN ErrorWith(<<"Invoice total is zero">>, 500, "")
  ELSE NoError

PFinalize(r) ==
  /\ pr[r].pc = "finalize"
  /\ \/ /\ Fail(r, NewError(<<"upstream", "invoices.finalizeInvoice">>))
        /\ UNCHANGED invoices
     \/ \E fin \in {FinalizedRemote(invoices[r], invoiceItems, pr[r].invoiceId),
                     FinalizedWithoutLines(invoices[r])} :
           /\ invoices' = [invoices EXCEPT ![r] = fin]
           /\ IF CheckFinalized(fin) # NoError
              THEN Fail(r, CheckFinalized(fin))
              ELSE pr' = [pr EXCEPT ![r].pc = "intent",
                                    ![r].finalizedInvoice =
                                      [id |-> pr[r].invoiceId, total |-> fin.total,
                                       currency |-> fin.currency, lines |-> fin.lines]]
  /\ Issues(<<"products", r>>, <<"invoices.finalizeInvoice">>)
  /\ UNCHANGED <<notProducts, user, customers, invoiceItems, paymentIntents>>

----------------------------------------------------------------------------
(* Steps 6 and 7: metadata and createPaymentIntentFromInvoiceService *)

\* {...a, ...b}: the keys of b win
Spread(a, b) ==
  [key \in DOMAIN a \cup DOMAIN b |-> IF key \in DOMAIN b THEN b[key] ELSE a[key]]

\* the keys of f whose value is not undefined
Defined(f, undefinedKeys) == [key \in DOMAIN f \ undefinedKeys |-> f[key]]

\* buildPaymentMetadata(userId, metadata, customerDetails)
buildPaymentMetadata(userId, metadata, customerDetails) ==
  Spread(Spread([userId |-> userId], metadata),
         Defined([customerEmail |-> customerDetails.email,
                  customerName |-> customerDetails.name,
                  customerPhone |-> customerDetails.phone,
                  customerZip |-> customerDetails.zip],
                 {key \in {"customerEmail", "customerName", "customerPhone", "customerZip"} :
                    customerDetails[CASE key = "customerEmail" -> "email"
                                      [] key = "customerName" -> "name"
                                      [] key = "customerPhone" -> "phone"
                                      [] OTHER -> "zip"] = ""}))

\* the metadata the products controller passes: tipAmount and tippingMethod
\* are undefined without a tip
ProductsMetadata(invoiceId, tipAmount) ==
  Defined([invoiceId |-> <<"in", invoiceId>>, paymentType |-> "products",
           tipAmount |-> tipAmount, tippingMethod |-> "app-based"],
          IF tipAmount > 0 THEN {} ELSE {"tipAmount", "tippingMethod"})

ApplicationFee == 5

\* variant: the amount is taken net of the application fee
IntentFromInvoiceNetOfFee(invoiceData, paymentMetadata, customerId) ==
  [amount |-> invoiceData.total - ApplicationFee,
   currency |-> IF invoiceData.currency = "" THEN "usd" ELSE invoiceData.currency,
   payment_method_types |-> <<"card_present">>,
   capture_method |-> "automatic",
   metadata |-> paymentMetadata,
   application_fee_amount |-> ApplicationFee,
   customer |-> customerId]

\* intentData of createPaymentIntentFromInvoiceService
IntentFromInvoice(invoiceData, paymentMetadata, customerId) ==
  [amount |-> invoiceData.total,
   currency |-> IF invoiceData.currency = "" THEN "usd" ELSE invoiceData.currency,
   payment_method_types |-> <<"card_present">>,
   capture_method |-> "automatic",
   metadata |-> paymentMetadata,
   application_fee_amount |-> ApplicationFee,
   customer |-> customerId]

PCreateIntent(r) ==
  /\ pr[r].pc = "intent"
  /\ LET intentData ==
           IntentFromInvoice(pr[r].finalizedInvoice,
                             buildPaymentMetadata(UserId,
                                ProductsMetadata(pr[r].invoiceId, pr[r].tipAmount),
                                [email |-> pr[r].email, name |-> "", phone |-> "",
                                 zip |-> ""]),
                             pr[r].customerId)
         id == Len(paymentIntents) + 1
     IN \/ /\ Fail(r, NewError(<<"upstream", "paymentIntents.create">>))
           /\ UNCHANGED paymentIntents
        \/ \* created, and the answer carries no client_secret
           /\ paymentIntents' = Append(paymentIntents, intentData
                                                       @@ [id |-> id, request |-> r])
           /\ Fail(r, ErrorWith(<<"PaymentIntent created but missing client_secret">>,
                                500, ""))
        \/ /\ paymentIntents' = Append(paymentIntents, intentData
                                                       @@ [id |-> id, request |-> r])
           /\ pr' = [pr EXCEPT ![r].pc = "attach", ![r].paymentIntentId = id,
                               ![r].clientSecret = "secret"]
  /\ Issues(<<"products", r>>, <<"paymentIntents.create">>)
  /\ UNCHANGED <<notProducts, user, customers, invoices, invoiceItems>>

----------------------------------------------------------------------------
(* Step 8: attachPaymentIntentToInvoiceService, and the answer *)

\* variant: a failed attach fails the request
PAttachFailing(r) ==
  /\ pr[r].pc = "attach"
  /\ \/ /\ Fail(r, ErrorWith(<<"Failed to attach PaymentIntent to invoice">>, 500, ""))
        /\ UNCHANGED invoices
     \/ /\ invoices' = [invoices EXCEPT ![r].payment = pr[r].paymentIntentId]
        /\ Respond(r, successResponse(
                        [clientSecret |-> pr[r].clientSecret,
                         paymentIntentId |-> pr[r].paymentIntentId,
                         invoiceId |-> pr[r].finalizedInvoice.id],
                        <<"Payment intent created from products successfully">>))
  /\ Issues(<<"products", r>>, <<"invoices.attachPayment">>)
  /\ UNCHANGED <<notProducts, user, customers, invoiceItems, paymentIntents>>

PAttach(r) ==
  /\ pr[r].pc = "attach"
  /\ \/ \* the attach fails: logged by the controller, nothing else
        UNCHANGED invoices
     \/ invoices' = [invoices EXCEPT ![r].payment = pr[r].paymentIntentId]
  /\ Respond(r, successResponse(
                  [clientSecret |-> pr[r].clientSecret,
                   paymentIntentId |-> pr[r].paymentIntentId,
                   invoiceId |-> pr[r].finalizedInvoice.id],
                  <<"Payment intent created from products successfully">>))
  /\ Issues(<<"products", r>>, <<"invoices.attachPayment">>)
  /\ UNCHANGED <<notProducts, user, customers, invoiceItems, paymentIntents>>

----------------------------------------------------------------------------
(* The account rows and customer lists a run can start from *)

UserChoices ==
  { [stripeAccountId |-> "acct_1", stripeAccountStatus |-> "active"],
    [stripeAccountId |-> "acct_1", stripeAccountStatus |-> "pending"],
    [stripeAccountId |-> "", stripeAccountStatus |-> "not_connected"] }

CustomerChoices ==
  { <<>>, <<[id |-> <<"cus", 1>>, email |-> "a@x.io", userId |-> UserId]>> }

----------------------------------------------------------------------------
(* Dates: a JavaScript Date is a time value in milliseconds since the epoch; *)
(* it is kept as the pair (day number since 1970-01-01, millisecond of the  *)
(* UTC day), which is the same integer split at the UTC day boundary.       *)

MsPerDay == 24 * 60 * 60 * 1000

SecPerDay == 24 * 60 * 60

MkDate(day, ms) == [day |-> day, ms |-> ms]

\* the Date whose time value is NaN
InvalidDate == [day |-> 0, ms |-> 0 - 1]

IsNaNDate(d) == d.ms < 0

\* time value plus delta milliseconds
AddMs(d, delta) ==
  MkDate(d.day + ((d.ms + delta) \div MsPerDay), (d.ms + delta) % MsPerDay)

\* d1 <= d2 and d1 < d2 on time values
DateLeq(d1, d2) == d1.day < d2.day \/ (d1.day = d2.day /\ d1.ms <= d2.ms)

DateLt(d1, d2) == d1.day < d2.day \/ (d1.day = d2.day /\ d1.ms < d2.ms)

\* Math.floor(date.getTime() / 1000)
UnixSeconds(d) == d.day * SecPerDay + (d.ms \div 1000)

\* new Date(seconds * 1000)
DateOfSeconds(sec) == MkDate(sec \div SecPerDay, (sec % SecPerDay) * 1000)

\* the day number of the civil date year-month-day (proleptic Gregorian)
DaysFromCivil(year, month, dayOfMonth) ==
  LET y   == IF month <= 2 THEN year - 1 ELSE year
      era == y \div 400
      yoe == y - era * 400
      mp  == IF month > 2 THEN month - 3 ELSE month + 9
      doy == ((153 * mp + 2) \div 5) + dayOfMonth - 1
      doe == yoe * 365 + (yoe \div 4) - (yoe \div 100) + doy
  IN era * 146097 + doe - 719468

\* the civil date <<year, month, day>> of a day number
CivilFromDays(z) ==
  LET zz  == z + 719468
      era == zz \div 146097
      doe == zz - era * 146097
      yoe == (doe - (doe \div 1460) + (doe \div 36524) - (doe \div 146096)) \div 365
      doy == doe - (365 * yoe + (yoe \div 4) - (yoe \div 100))
      mp  == (5 * doy + 2) \div 153
      d   == doy - ((153 * mp + 2) \div 5) + 1
      m   == IF mp < 10 THEN mp + 3 ELSE mp - 9
      y   == yoe + era * 400
  IN <<IF m <= 2 THEN y + 1 ELSE y, m, d>>

\* date.toISOString().split('T')[0]: the UTC calendar date, as <<y, m, d>>
ISODate(d) == CivilFromDays(d.day)

\* a part of a date string that Number() turns into NaN (or a missing part)
NotANumber == 0 - 1000000

\* x - 1 on numbers, NaN on NaN
MinusOne(x) == IF x = NotANumber THEN NotANumber ELSE x - 1

\* Date.UTC(year, monthIndex, day): months and days out of range carry over
DateUTC(year, monthIndex, dayOfMonth) ==
  IF year = NotANumber \/ monthIndex = NotANumber \/ dayOfMonth = NotANumber
  THEN InvalidDate
  ELSE MkDate(DaysFromCivil(year + (monthIndex \div 12), (monthIndex % 12) + 1, 1)
              + dayOfMonth - 1, 0)

\* the n-th part of dateString.split('-').map(Number), NaN when it is missing
DatePart(dateString, n) == IF n <= Len(dateString) THEN dateString[n] ELSE NotANumber

\* parseDateToUTC(dateString); a date string is kept as its parts split at '-',
\* <<>> is the absent date and `now` is new Date()
parseDateToUTC(dateString, now) ==
  IF dateString # <<>>
  THEN DateUTC(DatePart(dateString, 1), MinusOne(DatePart(dateString, 2)),
               DatePart(dateString, 3))
  ELSE MkDate(now.day, 0)

\* setUTCHours(0, 0, 0, 0) and setUTCHours(23, 59, 59, 999)
StartOfUTCDay(d) == MkDate(d.day, 0)

EndOfUTCDay(d) == MkDate(d.day, MsPerDay - 1)

\* setUTCDate(getUTCDate() + n)
AddUTCDays(d, n) == MkDate(d.day + n, d.ms)

----------------------------------------------------------------------------
(* The time zone of the server process. setDate and getDate work on local  *)
(* time: a zone is its offset from UTC before its first transition and the *)
(* transitions (instant, offset from then on) in ascending order.          *)

HourMs == 60 * 60 * 1000

UTCZone == [name |-> "UTC", initial |-> 0, transitions |-> <<>>]

\* America/New_York in 2025: EST, EDT from 2025-03-09T07:00Z, EST again from
\* 2025-11-02T06:00Z
NewYorkZone ==
  [name |-> "America/New_York", initial |-> 0 - 5 * HourMs,
   transitions |->
     << [at |-> MkDate(DaysFromCivil(2025, 3, 9), 7 * HourMs), offset |-> 0 - 4 * HourMs],
        [at |-> MkDate(DaysFromCivil(2025, 11, 2), 6 * HourMs), offset |-> 0 - 5 * HourMs] >>]

Zones == {UTCZone, NewYorkZone}

\* the period of the zone an instant falls in: 0 before the first transition
RECURSIVE PeriodOf(_, _, _)
PeriodOf(zone, d, n) ==
  IF n > Len(zone.transitions) THEN n - 1
  ELSE IF DateLt(d, zone.transitions[n].at) THEN n - 1
  ELSE PeriodOf(zone, d, n + 1)

OffsetOfPeriod(zone, n) == IF n = 0 THEN zone.initial ELSE zone.transitions[n].offset

\* local time = UTC + LocalOffset
LocalOffset(zone, d) == OffsetOfPeriod(zone, PeriodOf(zone, d, 1))

\* the instant of a local wall-clock time: the first period whose offset maps
\* the wall time into itself; a wall time skipped by a transition is read with
\* the offset in force before the transition
RECURSIVE UTCOfLocal(_, _, _)
UTCOfLocal(zone, wall, n) ==
  LET cand == AddMs(wall, 0 - OffsetOfPeriod(zone, n))
  IN IF n >= Len(zone.transitions) THEN cand
     ELSE IF DateLt(cand, zone.transitions[n + 1].at) THEN cand
     ELSE IF PeriodOf(zone, AddMs(wall, 0 - OffsetOfPeriod(zone, n + 1)), 1) <= n
          THEN cand
          ELSE UTCOfLocal(zone, wall, n + 1)

\* currentDate.setDate(currentDate.getDate() + 1): the same local wall-clock
\* time on the next local calendar day
SetDatePlusOne(zone, d) ==
  LET wall == AddMs(d, LocalOffset(zone, d))
  IN UTCOfLocal(zone, MkDate(wall.day + 1, wall.ms), 0)

----------------------------------------------------------------------------
(* fetchChargesFromStripeService *)

limit == 100

NoCursor == <<>>

RECURSIVE InRange(_, _, _)
\* the charges with gte <= created <= lte, in list order
InRange(cs, gte, lte) ==
  IF cs = <<>> THEN <<>>
  ELSE IF gte <= Head(cs).created /\ Head(cs).created <= lte
       THEN <<Head(cs)>> \o InRange(Tail(cs), gte, lte)
       ELSE InRange(Tail(cs), gte, lte)

RECURSIVE AfterCursor(_, _)
\* the part of the list after the object whose id is the cursor
AfterCursor(cs, cursor) ==
  IF cursor = NoCursor THEN cs
  ELSE IF cs = <<>> THEN <<>>
  ELSE IF Head(cs).id = cursor THEN Tail(cs)
  ELSE AfterCursor(Tail(cs), cursor)

\* what charges.list has left to serve for these params
Remaining(cs, params) ==
  AfterCursor(InRange(cs, params.gte, params.lte), params.starting_after)

\* the page sizes the platform may answer with: at most params.limit, at least
\* one object while objects are left
PageSizes(cs, params) ==
  IF Remaining(cs, params) = <<>> THEN {0}
  ELSE 1..(IF Len(Remaining(cs, params)) < params.limit
           THEN Len(Remaining(cs, params)) ELSE params.limit)

\* stripe.charges.list(params) answering with a page of n objects
ListCharges(cs, params, n) ==
  [data |-> SubSeq(Remaining(cs, params), 1, n),
   has_more |-> Len(Remaining(cs, params)) > n]

\* params of one turn of the loop
ListParams(gte, lte, startingAfter) ==
  [gte |-> gte, lte |-> lte, limit |-> limit, starting_after |-> startingAfter]

\* the ids of a list of charges
Ids(cs) == [i \in 1..Len(cs) |-> cs[i].id]

\* variant: the cursor is the first object of the page
NextCursorFirst(page) == page.data[1].id

\* startingAfter after a page that reports more: the id of its last object
NextCursor(page) == page.data[Len(page.data)].id

\* the loop goes on after this page
LoopContinues(page) == page.has_more /\ Len(page.data) > 0

----------------------------------------------------------------------------
(* groupChargesByDateService *)

\* parseInt(charge.metadata.tipAmount, 10) when the metadata carries a tip,
\* else charge.amount_details.tip.amount, else 0; a missing value is NotANumber
TipOf(charge) ==
  IF charge.metaTip # NotANumber THEN charge.metaTip
  ELSE IF charge.detailsTip # NotANumber THEN charge.detailsTip
  ELSE 0

ZeroBucket(dateKey) ==
  [date |-> dateKey, count |-> 0, totalAmount |-> 0, successful |-> 0,
   failed |-> 0, totalTips |-> 0]

\* variant: a charge is successful when its status is succeeded
AddChargeByStatus(bucket, charge) ==
  [bucket EXCEPT !.count = @ + 1,
                 !.totalAmount = @ + charge.amount,
                 !.totalTips = @ + TipOf(charge),
                 !.successful = IF charge.status = "succeeded" THEN @ + 1 ELSE @,
                 !.failed = IF charge.status = "succeeded" THEN @ ELSE @ + 1]

\* the bucket after one more charge
AddCharge(bucket, charge) ==
  [bucket EXCEPT !.count = @ + 1,
                 !.totalAmount = @ + charge.amount,
                 !.totalTips = @ + TipOf(charge),
                 !.successful = IF charge.status = "succeeded" /\ charge.paid
                                THEN @ + 1 ELSE @,
                 !.failed = IF charge.status = "succeeded" /\ charge.paid
                            THEN @ ELSE @ + 1]

\* new Date(charge.created * 1000).toISOString().split('T')[0]
ChargeDate(charge) == ISODate(DateOfSeconds(charge.created))

RECURSIVE GroupInto(_, _)
\* charges.forEach over the map built so far
GroupInto(statsByDate, cs) ==
  IF cs = <<>> THEN statsByDate
  ELSE LET key == ChargeDate(Head(cs))
           old == IF key \in DOMAIN statsByDate THEN statsByDate[key]
                  ELSE ZeroBucket(key)
       IN GroupInto([k \in DOMAIN statsByDate \cup {key} |->
                       IF k = key THEN AddCharge(old, Head(cs)) ELSE statsByDate[k]],
                    Tail(cs))

EmptyMap == [k \in {} |-> ZeroBucket(k)]

groupChargesByDateService(cs) == GroupInto(EmptyMap, cs)

----------------------------------------------------------------------------
(* calculateSummaryService *)

RECURSIVE SumField(_, _)
\* stats.reduce((sum, stat) => sum + stat[field], 0)
SumField(stats, field) ==
  IF stats = <<>> THEN 0 ELSE Head(stats)[field] + SumField(Tail(stats), field)

\* variant: Math.floor(a / b)
FloorDiv(a, b) == a \div b

\* Math.round(a / b) for a >= 0 and b > 0: halves go up
RoundDiv(a, b) == (2 * a + b) \div (2 * b)

calculateSummaryService(stats) ==
  [totalPayments |-> SumField(stats, "count"),
   totalAmount |-> SumField(stats, "totalAmount"),
   averageAmount |-> IF SumField(stats, "count") > 0
                     THEN RoundDiv(SumField(stats, "totalAmount"),
                                   SumField(stats, "count"))
                     ELSE 0,
   totalTips |-> SumField(stats, "totalTips")]

----------------------------------------------------------------------------
(* fillMissingDaysService *)

RECURSIVE FillFrom(_, _, _, _)
\* the while loop from currentDate on
FillFrom(zone, statsByDate, currentDate, end) ==
  IF ~DateLeq(currentDate, end) THEN <<>>
  ELSE LET dateKey == ISODate(currentDate)
       IN <<IF dateKey \in DOMAIN statsByDate THEN statsByDate[dateKey]
            ELSE ZeroBucket(dateKey)>>
          \o FillFrom(zone, statsByDate, SetDatePlusOne(zone, currentDate), end)

fillMissingDaysService(zone, statsByDate, startDate, endDate) ==
  FillFrom(zone, statsByDate, startDate, endDate)

----------------------------------------------------------------------------
(* getPaymentStats and getPaymentStatsService *)

\* parseInt(days, 10) || 7, then Math.max(1, ...); days is the query value as
\* parseInt reads it (NotANumber for text that is no number); an absent value
\* takes the default '7'
TrendDays(days) ==
  LET parsed == IF days.given THEN days.num ELSE 7
      orSeven == IF parsed = NotANumber \/ parsed = 0 THEN 7 ELSE parsed
  IN IF orSeven < 1 THEN 1 ELSE orSeven

\* includeTrend === 'true' || includeTrend === true
ShouldIncludeTrend(includeTrend) == includeTrend = "true"

NoStats == [stats |-> <<>>,
            summary |-> [totalPayments |-> 0, totalAmount |-> 0,
                         averageAmount |-> 0, totalTips |-> 0]]

NullTrend == [isNull |-> TRUE, days |-> 0, stats |-> <<>>, summary |-> NoStats.summary]

IdleStats ==
  [pc |-> "off", date |-> <<>>, includeTrend |-> "true",
   days |-> [given |-> FALSE, num |-> 0], now |-> MkDate(0, 0),
   selectedDate |-> MkDate(0, 0), trendDays |-> 0, phase |-> "",
   allCharges |-> <<>>, hasMore |-> FALSE, startingAfter |-> NoCursor,
   calls |-> <<>>, singleDayCharges |-> <<>>, trendCharges |-> <<>>,
   error |-> NoError, response |-> NoResponse]

NewStatsRequest(date, includeTrend, days, now) ==
  [IdleStats EXCEPT !.pc = "start", !.date = date, !.includeTrend = includeTrend,
                    !.days = days, !.now = now]

\* the ranges of getPaymentStatsService (UTC boundaries)
SingleDayStart(selectedDate) == StartOfUTCDay(selectedDate)

SingleDayEnd(selectedDate) == EndOfUTCDay(selectedDate)

\* variant: the range starts trendDays days before the selected day
TrendStartDaysBack(selectedDate, trendDays) ==
  StartOfUTCDay(AddUTCDays(selectedDate, 0 - trendDays))

TrendStart(selectedDate, trendDays) ==
  StartOfUTCDay(AddUTCDays(selectedDate, 0 - (trendDays - 1)))

TrendEnd(selectedDate) == EndOfUTCDay(selectedDate)

\* the bounds of the fetch of this phase, in unix seconds
FetchGte(s) ==
  IF s.phase = "single" THEN UnixSeconds(SingleDayStart(s.selectedDate))
  ELSE UnixSeconds(TrendStart(s.selectedDate, s.trendDays))

FetchLte(s) ==
  IF s.phase = "single" THEN UnixSeconds(SingleDayEnd(s.selectedDate))
  ELSE UnixSeconds(TrendEnd(s.selectedDate))

\* the response data built from the two fetched lists
StatsData(zone, s, singleDayCharges, trendCharges) ==
  LET singleDayStats ==
        fillMissingDaysService(zone, groupChargesByDateService(singleDayCharges),
                               SingleDayStart(s.selectedDate),
                               SingleDayEnd(s.selectedDate))
      trendStats ==
        fillMissingDaysService(zone, groupChargesByDateService(trendCharges),
                               TrendStart(s.selectedDate, s.trendDays),
                               TrendEnd(s.selectedDate))
  IN [singleDay |-> [stats |-> singleDayStats,
                     summary |-> calculateSummaryService(singleDayStats)],
      trendData |-> IF ShouldIncludeTrend(s.includeTrend)
                    THEN [isNull |-> FALSE, days |-> s.trendDays,
                          stats |-> trendStats,
                          summary |-> calculateSummaryService(trendStats)]
                    ELSE NullTrend]

\* variant: the request is answered with what has been aggregated so far
StatsFailPartial(err) ==
  st' = [st EXCEPT !.pc = "done", !.error = err,
                   !.response =
                     successResponse(
                       [singleDay |->
                          [stats |-> <<>>,
                           summary |-> calculateSummaryService(<<>>)],
                        trendData |-> NullTrend],
                       <<"Payment statistics retrieved successfully">>)]

\* an error thrown anywhere in the request: catch (error) { next(error) }
StatsFail(err) ==
  st' = [st EXCEPT !.pc = "done", !.error = err, !.response = errorHandler(err)]

\* the controller up to the first charges.list call: validateStripeAccount,
\* then the date parsing, its validation and the ranges
SBegin ==
  /\ st.pc = "start"
  /\ IF validateStripeAccount(user) # NoError
     THEN StatsFail(validateStripeAccount(user))
     ELSE IF IsNaNDate(parseDateToUTC(st.date, st.now))
     THEN StatsFail(ErrorWith(<<"Invalid date format">>, 400, "invalid-argument"))
     ELSE st' = [st EXCEPT !.pc = "fetch",
                           !.selectedDate = parseDateToUTC(st.date, st.now),
                           !.trendDays = TrendDays(st.days),
                           !.phase = "single",
                           !.allCharges = <<>>, !.hasMore = TRUE,
                           !.startingAfter = NoCursor, !.calls = <<>>]
  /\ Issues(<<"statistics", 1>>, <<AccountRead>>)
  /\ UNCHANGED notStats

\* one turn of the while loop of fetchChargesFromStripeService and, when the
\* loop ends, what follows it up to the next charges.list call or the answer
SFetchPage ==
  /\ st.pc = "fetch"
  /\ LET params == ListParams(FetchGte(st), FetchLte(st), st.startingAfter)
     IN \/ \* the call fails: the error goes up as it is, nothing is returned
           StatsFail(NewError(<<"upstream", "charges.list">>))
        \/ \E n \in PageSizes(charges, params) :
             LET page == ListCharges(charges, params, n)
                 all  == st.allCharges \o page.data
                 call == [params |-> params, ids |-> Ids(page.data),
                          has_more |-> page.has_more, phase |-> st.phase]
             IN IF LoopContinues(page)
                THEN st' = [st EXCEPT !.allCharges = all, !.hasMore = TRUE,
                                      !.startingAfter = NextCursor(page),
                                      !.calls = Append(@, call)]
                ELSE IF st.phase = "single" /\ ShouldIncludeTrend(st.includeTrend)
                THEN st' = [st EXCEPT !.singleDayCharges = all,
                                      !.phase = "trend",
                                      !.allCharges = <<>>, !.hasMore = TRUE,
                                      !.startingAfter = NoCursor,
                                      !.calls = Append(@, call)]
                ELSE LET single == IF st.phase = "single" THEN all
                                   ELSE st.singleDayCharges
                         trend  == IF st.phase = "trend" THEN all ELSE <<>>
                     IN st' = [st EXCEPT
                                 !.pc = "done", !.hasMore = FALSE,
                                 !.allCharges = all,
                                 !.singleDayCharges = single,
                                 !.trendCharges = trend,
                                 !.calls = Append(@, call),
                                 !.response =
                                   successResponse(
                                     StatsData(tz, st, single, trend),
                                     <<"Payment statistics retrieved successfully">>)]
  /\ Issues(<<"statistics", 1>>, <<"charges.list">>)
  /\ UNCHANGED notStats

----------------------------------------------------------------------------
(* createRefund, getChargeService and createRefundService *)

NoCharge ==
  [id |-> <<>>, created |-> 0, amount |-> 0, amount_refunded |-> 0,
   status |-> "", paid |-> FALSE, metaTip |-> NotANumber, detailsTip |-> NotANumber]

\* req.body.chargeId is a value with its typeof; req.body.amount is read by
\* nothing (NotANumber when the body has none); reason is "" when absent;
\* refundsSeen is the number of refunds.create calls the upstream had received
\* when the request retrieved its charge
IdleRefund ==
  [pc |-> "off", chargeId |-> [type |-> "undefined", value |-> <<>>],
   reason |-> "", bodyAmount |-> NotANumber, accountId |-> "",
   charge |-> NoCharge, availableAmount |-> 0, refundsSeen |-> 0,
   error |-> NoError, response |-> NoResponse]

NewRefundRequest(chargeId, reason, bodyAmount) ==
  [IdleRefund EXCEPT !.pc = "start", !.chargeId = chargeId, !.reason = reason,
                     !.bodyAmount = bodyAmount]

RRespond(r, resp) ==
  rf' = [rf EXCEPT ![r].pc = "done", ![r].response = resp]

\* catch (error) { next(error) }
RFail(r, err) ==
  rf' = [rf EXCEPT ![r].pc = "done", ![r].error = err,
                   ![r].response = errorHandler(err)]

RefundReasons == {"duplicate", "fraudulent", "requested_by_customer"}

\* !chargeId || typeof chargeId !== 'string'
BadChargeId(chargeId) == chargeId.type # "string" \/ chargeId.value = <<>>

\* the controller up to the charges.retrieve call
RBegin(r) ==
  /\ rf[r].pc = "start"
  /\ IF BadChargeId(rf[r].chargeId)
     THEN RRespond(r, errorResponse(<<"chargeId is required and must be a string">>,
                                    "invalid-argument"))
     ELSE IF validateStripeAccount(user) # NoError
     THEN RFail(r, validateStripeAccount(user))
     ELSE rf' = [rf EXCEPT ![r].pc = "retrieve", ![r].accountId = user.stripeAccountId]
  /\ Issues(<<"refund", r>>, IF BadChargeId(rf[r].chargeId) THEN <<>> ELSE <<AccountRead>>)
  /\ UNCHANGED <<notRefund, user, charges, refunds>>

\* the positions of the charge with this id
ChargeIndex(cs, id) == {i \in 1..Len(cs) : cs[i].id = id}

\* charge.amount_refunded || 0
AmountRefunded(charge) ==
  IF charge.amount_refunded = NotANumber THEN 0 ELSE charge.amount_refunded

\* chargeAmount - amountRefunded
AvailableAmount(charge) == charge.amount - AmountRefunded(charge)

\* variant: the amount of the body when it has one
RefundDataFromBody(availableAmount, bodyAmount, reason) ==
  [amount |-> IF bodyAmount # NotANumber THEN bodyAmount ELSE availableAmount,
   reason |-> reason]

\* the refundData the controller passes: { amount: availableAmount,
\* reason: reason || null }
RefundData(availableAmount, bodyAmount, reason) ==
  [amount |-> availableAmount, reason |-> reason]

\* getChargeService, then the validation of reason
RGetCharge(r) ==
  /\ rf[r].pc = "retrieve"
  /\ \/ RFail(r, NewError(<<"upstream", "charges.retrieve">>))
     \/ \E i \in ChargeIndex(charges, rf[r].chargeId.value) :
          IF rf[r].reason # "" /\ rf[r].reason \notin RefundReasons
          THEN RRespond(r, errorResponse(
                 <<"Reason must be one of: duplicate, fraudulent, requested_by_customer">>,
                 "invalid-argument"))
          ELSE rf' = [rf EXCEPT ![r].pc = "refund", ![r].charge = charges[i],
                                ![r].availableAmount = AvailableAmount(charges[i]),
                                ![r].refundsSeen = Len(refunds)]
  /\ Issues(<<"refund", r>>, <<"charges.retrieve">>)
  /\ UNCHANGED <<notRefund, user, charges, refunds>>

\* refundParams of createRefundService: the amount only when it is truthy and
\* positive (then Math.round of it), the reason only when it is a known one
RefundParams(chargeId, refundData) ==
  [charge |-> chargeId,
   hasAmount |-> refundData.amount # 0 /\ refundData.amount > 0,
   amount |-> IF refundData.amount # 0 /\ refundData.amount > 0
              THEN RoundDiv(refundData.amount, 1) ELSE 0,
   hasReason |-> refundData.reason # "" /\ refundData.reason \in RefundReasons,
   reason |-> IF refundData.reason # "" /\ refundData.reason \in RefundReasons
              THEN refundData.reason ELSE ""]

\* what the upstream refunds for these params: the amount asked for, the whole
\* remaining balance when none is asked for
UpstreamAmount(charge, params) ==
  IF params.hasAmount THEN params.amount ELSE AvailableAmount(charge)

\* the upstream accepts a refund of a positive amount within the balance
UpstreamAccepts(charge, params) ==
  /\ UpstreamAmount(charge, params) > 0
  /\ UpstreamAmount(charge, params) <= AvailableAmount(charge)

\* createRefundService: stripe.refunds.create and the answer of the controller
RCreateRefund(r) ==
  /\ rf[r].pc = "refund"
  /\ LET params == RefundParams(rf[r].chargeId.value,
                                RefundData(rf[r].availableAmount, rf[r].bodyAmount,
                                           rf[r].reason))
         call(ok) == [request |-> r, params |-> params, read |-> rf[r].charge,
                      bodyAmount |-> rf[r].bodyAmount, seen |-> rf[r].refundsSeen,
                      ok |-> ok]
     IN \/ /\ RFail(r, NewError(<<"upstream", "refunds.create">>))
           /\ refunds' = Append(refunds, call(FALSE))
           /\ UNCHANGED charges
        \/ \E i \in ChargeIndex(charges, params.charge) :
             /\ UpstreamAccepts(charges[i], params)
             /\ charges' = [charges EXCEPT ![i].amount_refunded =
                              AmountRefunded(charges[i])
                              + UpstreamAmount(charges[i], params)]
             /\ refunds' = Append(refunds, call(TRUE))
             /\ RRespond(r, successResponse(
                  [id |-> <<"re", Len(refunds) + 1>>,
                   amount |-> UpstreamAmount(charges[i], params),
                   charge |-> params.charge, status |-> "succeeded",
                   reason |-> params.reason],
                  <<"Refund processed successfully">>))
  /\ Issues(<<"refund", r>>, <<"refunds.create">>)
  /\ UNCHANGED <<notRefund, user>>

----------------------------------------------------------------------------
(* The remote Terminal objects of the connected account *)

\* the location of the reader tmr_1 ("" when it has none), the
\* configuration_overrides of the location tml_1 ("" when it has none) and
\* the number of configurations created so far
NoTerminal == [readerLocation |-> "", configuration_overrides |-> <<>>, configurations |-> 0]

----------------------------------------------------------------------------
(* createPaymentIntent and createPaymentIntentService *)

\* req.body of create-intent: amount is in thousandths of the currency unit
\* (12340 is 12.34), NotANumber when the body has none; metadata is the map
\* of the caller; a customer detail that is absent is ""
IdleIntent ==
  [pc |-> "off", amount |-> NotANumber, currency |-> "usd",
   metadata |-> [key \in {} |-> ""],
   customerDetails |-> [email |-> "", name |-> "", phone |-> "", zip |-> ""],
   connectionType |-> "tapToPay", readerId |-> "", locationId |-> "",
   accountId |-> "", finalLocationId |-> "", configurationId |-> <<>>,
   error |-> NoError, response |-> NoResponse]

NewIntentRequest(amount, metadata, customerDetails) ==
  [IdleIntent EXCEPT !.pc = "start", !.amount = amount, !.metadata = metadata,
                     !.customerDetails = customerDetails]

\* the request with connectionType, readerId and locationId in its body ("" is
\* an absent id)
WithReader(request, connection) ==
  [request EXCEPT !.connectionType = connection.connectionType,
                  !.readerId = connection.readerId,
                  !.locationId = connection.locationId]

CRespond(r, resp) ==
  ci' = [ci EXCEPT ![r].pc = "done", ![r].response = resp]

\* catch (error) { next(error) }
CFail(r, err) ==
  ci' = [ci EXCEPT ![r].pc = "done", ![r].error = err,
                   ![r].response = errorHandler(err)]

\* !amount || amount <= 0
BadAmount(amount) == amount = NotANumber \/ amount = 0 \/ amount <= 0

\* the validation of the amount, before any await
CBegin(r) ==
  /\ ci[r].pc = "start"
  /\ IF BadAmount(ci[r].amount)
     THEN CRespond(r, errorResponse(<<"Amount must be greater than zero">>,
                                    "invalid-argument"))
     ELSE ci' = [ci EXCEPT ![r].pc = "account"]
  /\ UNCHANGED remote
  /\ UNCHANGED <<notIntent, terminal, user, paymentIntents>>

CValidateAccount(r) ==
  /\ ci[r].pc = "account"
  /\ IF validateStripeAccount(user) # NoError
     THEN CFail(r, validateStripeAccount(user))
     ELSE ci' = [ci EXCEPT ![r].pc = "tipcfg", ![r].accountId = user.stripeAccountId]
  /\ Issues(<<"intent", r>>, <<AccountRead>>)
  /\ UNCHANGED <<notIntent, terminal, user, paymentIntents>>

\* ensureLocationTippingConfig returns: the controller goes on with the
\* payment intent
TippingReturns(r) == ci' = [ci EXCEPT ![r].pc = "intent"]

\* ensureLocationTippingConfig for a reader that is not an internet reader,
\* and for an internet reader without readerId and locationId
CEnsureTippingSkip(r) ==
  /\ ci[r].pc = "tipcfg"
  /\ \/ ci[r].connectionType # "internet"
     \/ ci[r].locationId = "" /\ ci[r].readerId = ""
  /\ TippingReturns(r)
  /\ UNCHANGED remote
  /\ UNCHANGED <<notIntent, terminal, user, paymentIntents>>

\* step 1: terminal.readers.retrieve, when the body carries no locationId
CTipReader(r) ==
  /\ ci[r].pc = "tipcfg"
  /\ ci[r].connectionType = "internet"
  /\ ci[r].locationId = ""
  /\ ci[r].readerId # ""
  /\ \/ \* the retrieval fails: a warning, and the function returns
        TippingReturns(r)
     \/ IF terminal.readerLocation = ""
        THEN TippingReturns(r)
        ELSE ci' = [ci EXCEPT ![r].pc = "tipLocation",
                              ![r].finalLocationId = terminal.readerLocation]
  /\ Issues(<<"intent", r>>, <<"terminal.readers.retrieve">>)
  /\ UNCHANGED <<notIntent, terminal, user, paymentIntents>>

\* variant: a failing location retrieval fails the request
CTipLocationThrowing(r) ==
  /\ \/ ci[r].pc = "tipLocation"
     \/ ci[r].pc = "tipcfg" /\ ci[r].connectionType = "internet" /\ ci[r].locationId # ""
  /\ \/ CFail(r, NewError(<<"upstream", "terminal.locations.retrieve">>))
     \/ IF terminal.configuration_overrides # <<>>
        THEN TippingReturns(r)
        ELSE ci' = [ci EXCEPT ![r].pc = "tipConfig",
                              ![r].finalLocationId =
                                IF ci[r].pc = "tipcfg" THEN ci[r].locationId ELSE @]
  /\ Issues(<<"intent", r>>, <<"terminal.locations.retrieve">>)
  /\ UNCHANGED <<notIntent, terminal, user, paymentIntents>>

\* steps 2 and 3: terminal.locations.retrieve for the locationId of the body
\* or the reader's location, and the check of configuration_overrides
CTipLocation(r) ==
  /\ \/ ci[r].pc = "tipLocation"
     \/ ci[r].pc = "tipcfg" /\ ci[r].connectionType = "internet" /\ ci[r].locationId # ""
  /\ \/ \* the retrieval fails: a warning, and the function returns
        TippingReturns(r)
     \/ IF terminal.configuration_overrides # <<>>
        THEN TippingReturns(r)
        ELSE ci' = [ci EXCEPT ![r].pc = "tipConfig",
                              ![r].finalLocationId =
                                IF ci[r].pc = "tipcfg" THEN ci[r].locationId ELSE @]
  /\ Issues(<<"intent", r>>, <<"terminal.locations.retrieve">>)
  /\ UNCHANGED <<notIntent, terminal, user, paymentIntents>>

\* step 4: terminal.configurations.create
CTipCreateConfiguration(r) ==
  /\ ci[r].pc = "tipConfig"
  /\ \/ /\ TippingReturns(r)
        /\ UNCHANGED terminal
     \/ /\ terminal' = [terminal EXCEPT !.configurations = @ + 1]
        /\ ci' = [ci EXCEPT ![r].pc = "tipUpdate",
                            ![r].configurationId = <<"tmc", terminal.configurations + 1>>]
  /\ Issues(<<"intent", r>>, <<"terminal.configurations.create">>)
  /\ UNCHANGED <<notIntent, user, paymentIntents>>

\* step 5: terminal.locations.update with the new configuration
CTipUpdateLocation(r) ==
  /\ ci[r].pc = "tipUpdate"
  /\ \/ UNCHANGED terminal
     \/ terminal' = [terminal EXCEPT !.configuration_overrides = ci[r].configurationId]
  /\ TippingReturns(r)
  /\ Issues(<<"intent", r>>, <<"terminal.locations.update">>)
  /\ UNCHANGED <<notIntent, user, paymentIntents>>

\* intentData of createPaymentIntentService: Math.round(amount * 100) and the
\* metadata of buildPaymentMetadata; receipt_email "" is no receipt_email
IntentData(paymentData) ==
  [amount |-> RoundDiv(paymentData.amount, 10),
   currency |-> paymentData.currency,
   payment_method_types |-> <<"card_present">>,
   capture_method |-> "automatic",
   metadata |-> buildPaymentMetadata(paymentData.userId, paymentData.metadata,
                                     paymentData.customerDetails),
   application_fee_amount |-> ApplicationFee,
   receipt_email |-> paymentData.customerDetails.email]

\* createPaymentIntentService: paymentIntents.create and the answer; every
\* error of the service is thrown again as a plain Error with its message
CCreateIntent(r) ==
  /\ ci[r].pc = "intent"
  /\ LET intentData == IntentData([amount |-> ci[r].amount,
                                   currency |-> ci[r].currency,
                                   metadata |-> ci[r].metadata,
                                   customerDetails |-> ci[r].customerDetails,
                                   userId |-> UserId])
         id == Len(paymentIntents) + 1
     IN \/ /\ CFail(r, NewError(<<"upstream", "paymentIntents.create">>))
           /\ UNCHANGED paymentIntents
        \/ /\ paymentIntents' = Append(paymentIntents,
                                       intentData @@ [id |-> id, request |-> r])
           /\ CFail(r, NewError(
                <<"Failed to create payment intent: missing client secret">>))
        \/ /\ paymentIntents' = Append(paymentIntents,
                                       intentData @@ [id |-> id, request |-> r])
           /\ CRespond(r, successResponse(
                [clientSecret |-> "secret", paymentIntentId |-> id],
                <<"Payment intent created successfully">>))
  /\ Issues(<<"intent", r>>, <<"paymentIntents.create">>)
  /\ UNCHANGED <<notIntent, terminal, user>>

----------------------------------------------------------------------------
(* getTransactions and getTransactionsService *)

IdleTransactions ==
  [pc |-> "off", date |-> <<>>, now |-> MkDate(0, 0), selectedDate |-> MkDate(0, 0),
   allCharges |-> <<>>, startingAfter |-> NoCursor, calls |-> <<>>,
   error |-> NoError, response |-> NoResponse]

NewTransactionsRequest(date, now) ==
  [IdleTransactions EXCEPT !.pc = "start", !.date = date, !.now = now]

TransactionsFail(err) ==
  tx' = [tx EXCEPT !.pc = "done", !.error = err, !.response = errorHandler(err)]

RECURSIVE InsertByCreated(_, _)
\* the place of one charge in a list that is newest first; among charges
\* created in the same second the earlier of the input stays first
InsertByCreated(sorted, charge) ==
  IF sorted = <<>> THEN <<charge>>
  ELSE IF Head(sorted).created >= charge.created
       THEN <<Head(sorted)>> \o InsertByCreated(Tail(sorted), charge)
       ELSE <<charge>> \o sorted

RECURSIVE SortByCreated(_, _)
\* charges.sort((a, b) => b.created - a.created)
SortByCreated(sorted, cs) ==
  IF cs = <<>> THEN sorted
  ELSE SortByCreated(InsertByCreated(sorted, Head(cs)), Tail(cs))

\* the transaction a charge is mapped to
Transaction(charge) ==
  [id |-> charge.id, amount |-> charge.amount, status |-> charge.status,
   created |-> charge.created, paid |-> charge.paid,
   refunded |-> charge.amount_refunded # NotANumber /\ charge.amount_refunded > 0,
   tipAmount |-> TipOf(charge), baseAmount |-> charge.amount - TipOf(charge)]

Transactions(cs) ==
  [i \in 1..Len(cs) |-> Transaction(SortByCreated(<<>>, cs)[i])]

\* the controller up to the first charges.list call: validateStripeAccount,
\* then the date parsing, its validation and the range of the day
TBegin ==
  /\ tx.pc = "start"
  /\ IF validateStripeAccount(user) # NoError
     THEN TransactionsFail(validateStripeAccount(user))
     ELSE IF IsNaNDate(parseDateToUTC(tx.date, tx.now))
     THEN TransactionsFail(ErrorWith(<<"Invalid date format">>, 400, "invalid-argument"))
     ELSE tx' = [tx EXCEPT !.pc = "fetch",
                           !.selectedDate = parseDateToUTC(tx.date, tx.now),
                           !.allCharges = <<>>, !.startingAfter = NoCursor]
  /\ Issues(<<"transactions", 1>>, <<AccountRead>>)
  /\ UNCHANGED notTransactions

\* the page sizes of an upstream that may also answer with an empty page
\* while it reports more
PageSizesOrNone(cs, params) == PageSizes(cs, params) \cup {0}

\* what the loop notes of one answered charges.list call
PageCall(params, page) ==
  [starting_after |-> params.starting_after, count |-> Len(page.data),
   has_more |-> page.has_more]

\* variant: the loop goes on while the page reports more, and the cursor
\* moves only when the page has items
TFetchPageWhileMore ==
  /\ tx.pc = "fetch"
  /\ LET params == ListParams(UnixSeconds(StartOfUTCDay(tx.selectedDate)),
                              UnixSeconds(EndOfUTCDay(tx.selectedDate)),
                              tx.startingAfter)
     IN \/ TransactionsFail(NewError(<<"upstream", "charges.list">>))
        \/ \E n \in PageSizesOrNone(charges, params) :
             LET page == ListCharges(charges, params, n)
                 all  == tx.allCharges \o page.data
             IN IF page.has_more
                THEN tx' = [tx EXCEPT !.allCharges = all,
                                      !.startingAfter =
                                        IF Len(page.data) > 0 THEN NextCursor(page) ELSE @,
                                      !.calls = Append(@, PageCall(params, page))]
                ELSE tx' = [tx EXCEPT
                              !.pc = "done", !.allCharges = all,
                              !.calls = Append(@, PageCall(params, page)),
                              !.response =
                                successResponse(
                                  Transactions(all),
                                  <<"Transactions retrieved successfully">>)]
  /\ Issues(<<"transactions", 1>>, <<"charges.list">>)
  /\ UNCHANGED notTransactions

\* one turn of the while loop of fetchChargesFromStripeService and, when the
\* loop ends, the sorting, the mapping and the answer
TFetchPage ==
  /\ tx.pc = "fetch"
  /\ LET params == ListParams(UnixSeconds(StartOfUTCDay(tx.selectedDate)),
                              UnixSeconds(EndOfUTCDay(tx.selectedDate)),
                              tx.startingAfter)
     IN \/ TransactionsFail(NewError(<<"upstream", "charges.list">>))
        \/ \E n \in PageSizesOrNone(charges, params) :
             LET page == ListCharges(charges, params, n)
                 all  == tx.allCharges \o page.data
             IN IF LoopContinues(page)
                THEN tx' = [tx EXCEPT !.allCharges = all,
                                      !.startingAfter = NextCursor(page),
                                      !.calls = Append(@, PageCall(params, page))]
                ELSE tx' = [tx EXCEPT
                              !.pc = "done", !.allCharges = all,
                              !.calls = Append(@, PageCall(params, page)),
                              !.response =
                                successResponse(
                                  Transactions(all),
                                  <<"Transactions retrieved successfully">>)]
  /\ Issues(<<"transactions", 1>>, <<"charges.list">>)
  /\ UNCHANGED notTransactions

----------------------------------------------------------------------------
(* One call of groupChargesByDateService *)

IdleGrouping == [pc |-> "off", charges |-> <<>>, statsByDate |-> EmptyMap]

NewGrouping(cs) == [IdleGrouping EXCEPT !.pc = "start", !.charges = cs]

\* the call: the map the service returns for its argument
GroupCharges ==
  /\ gr.pc = "start"
  /\ gr' = [gr EXCEPT !.pc = "done",
                      !.statsByDate = groupChargesByDateService(gr.charges)]
  /\ UNCHANGED <<user, customers, invoices, invoiceItems, paymentIntents, pr, charges, tz,
                 st, rf, refunds, remote, ci, tx, terminal>>

----------------------------------------------------------------------------
(* The statistics specification: one request over a small charge history *)

\* the first day of the three-day windows the charges of the model fall in
Windows == {<<2025, 12, 13>>, <<2025, 3, 8>>}

WindowDay(w, offset) == DaysFromCivil(w[1], w[2], w[3]) + offset

\* the charges a window can hold, newest first: on its last day one at
\* 23:59:59 (500, failed) and one at 12:00:00 (700, succeeded, a tip of 100 in
\* the metadata), on its second day one at 12:00:00 (700, succeeded, a tip of
\* 50 in amount_details), on its first day one at 00:00:00 (1000, succeeded)
ChargeTemplates(w) ==
  << [created |-> WindowDay(w, 2) * SecPerDay + SecPerDay - 1, amount |-> 500,
      status |-> "failed", paid |-> FALSE,
      metaTip |-> NotANumber, detailsTip |-> NotANumber],
     [created |-> WindowDay(w, 2) * SecPerDay + (SecPerDay \div 2), amount |-> 700,
      status |-> "succeeded", paid |-> TRUE,
      metaTip |-> 100, detailsTip |-> NotANumber],
     [created |-> WindowDay(w, 1) * SecPerDay + (SecPerDay \div 2), amount |-> 700,
      status |-> "succeeded", paid |-> TRUE,
      metaTip |-> NotANumber, detailsTip |-> 50],
     [created |-> WindowDay(w, 0) * SecPerDay, amount |-> 1000,
      status |-> "succeeded", paid |-> TRUE,
      metaTip |-> NotANumber, detailsTip |-> NotANumber] >>

IsNonDecreasing(f) == \A i \in 1..(Len(f) - 1) : f[i] <= f[i + 1]

\* the charge histories of a window: up to MaxCharges charges, newest first,
\* each with its own id
ChargeHistories(w) ==
  { [i \in 1..Len(pick) |->
       ChargeTemplates(w)[pick[i]] @@
       [id |-> <<"ch", i>>, amount_refunded |-> 0]] :
    pick \in {f \in SeqsUpTo(1..4, MaxCharges) : IsNonDecreasing(f)} }

\* date=YYYY-MM-DD for the three days of the window, as its parts, and no date
DateChoices(w) ==
  {<<>>} \cup {CivilFromDays(WindowDay(w, o)) : o \in 0..2}

\* days absent and days a number of 1 or more
DaysChoices ==
  {[given |-> FALSE, num |-> 0]} \cup {[given |-> TRUE, num |-> n] : n \in {1, 3}}

\* days a text that is no number, and days a number below 1
OddDaysChoices == {[given |-> TRUE, num |-> n] : n \in {NotANumber, 0 - 2, 0}}

TrendChoices ==
  {<<"false", [given |-> FALSE, num |-> 0]>>} \cup
  {<<"true", d>> : d \in DaysChoices}

ActiveUser == [stripeAccountId |-> "acct_1", stripeAccountStatus |-> "active"]

\* the malformed date strings of the model: one word, a year and a month
\* without a day, and the last day of the window written with the month
\* counted from the year before (month 13 to 24)
MalformedDates(w) ==
  { <<NotANumber>>,
    <<w[1], w[2]>>,
    <<CivilFromDays(WindowDay(w, 2))[1] - 1, CivilFromDays(WindowDay(w, 2))[2] + 12,
      CivilFromDays(WindowDay(w, 2))[3]>> }

\* the queries of the model: date, includeTrend and days; a malformed date
\* comes without a trend or with the default one, an odd days value with the
\* last day of the window
StatsQueries(w) ==
  {<<date, trend[1], trend[2]>> : date \in DateChoices(w), trend \in TrendChoices}
  \cup
  {<<CivilFromDays(WindowDay(w, 2)), "true", days>> : days \in OddDaysChoices}
  \cup
  {<<date, includeTrend, [given |-> FALSE, num |-> 0]>> :
     date \in MalformedDates(w), includeTrend \in {"true", "false"}}

InitStats ==
  /\ remote = NoCalls
  /\ terminal = NoTerminal
  /\ gr = IdleGrouping
  /\ ci = [r \in Reqs |-> IdleIntent]
  /\ rf = [r \in Reqs |-> IdleRefund]
  /\ refunds = <<>>
  /\ customers = <<>>
  /\ invoices = [r \in Reqs |-> NoInvoice]
  /\ invoiceItems = <<>>
  /\ paymentIntents = <<>>
  /\ pr = [r \in Reqs |-> IdleRequest]
  /\ tz \in Zones
  /\ tx = IdleTransactions
  /\ \E w \in Windows :
       /\ charges \in ChargeHistories(w)
       /\ \/ /\ user = ActiveUser
             /\ \E query \in StatsQueries(w) :
                  st = NewStatsRequest(query[1], query[2], query[3],
                                       MkDate(WindowDay(w, 2), 15 * HourMs))
          \/ /\ user \in UserChoices \ {ActiveUser}
             /\ charges = <<>>
             /\ st = NewStatsRequest(<<>>, "true", [given |-> FALSE, num |-> 0],
                                     MkDate(WindowDay(w, 2), 15 * HourMs))

NextStats == SBegin \/ SFetchPage

SpecStats == InitStats /\ [][NextStats]_vars

----------------------------------------------------------------------------
(* The create-intent-from-products specification: one request *)

\* bodies with a structural error: an item without priceId, an item with a
\* negative quantity, an item that is null (alone and after a good item), a
\* negative tip, and a tip that is the string '200', the empty string or false
MalformedBodies ==
  { [cart |-> <<[priceId |-> "", quantity |-> 1]>>, tip |-> 0, tipKind |-> "number"],
    [cart |-> <<[priceId |-> "price_A", quantity |-> 0 - 1]>>, tip |-> 0,
     tipKind |-> "number"],
    [cart |-> <<NullItem>>, tip |-> 0, tipKind |-> "number"],
    [cart |-> <<[priceId |-> "price_A", quantity |-> 1], NullItem>>, tip |-> 0,
     tipKind |-> "number"] }
  \cup
  { [cart |-> <<[priceId |-> "price_A", quantity |-> 1]>>, tip |-> t[1], tipKind |-> t[2]] :
      t \in {<<0 - 100, "number">>, <<200, "string">>, <<0, "string">>, <<0, "boolean">>} }

\* the bodies of the model: every cart of up to MaxCart items with either
\* tip, and the malformed ones
ProductsBodies ==
  { [cart |-> cart, tip |-> tip, tipKind |-> "number"] :
      cart \in SeqsUpTo(CartItemChoices, MaxCart), tip \in TipChoices }
  \cup MalformedBodies

InitProducts ==
  /\ remote = NoCalls
  /\ terminal = NoTerminal
  /\ gr = IdleGrouping
  /\ ci = [r \in Reqs |-> IdleIntent]
  /\ tx = IdleTransactions
  /\ rf = [r \in Reqs |-> IdleRefund]
  /\ refunds = <<>>
  /\ charges = <<>>
  /\ tz = UTCZone
  /\ st = IdleStats
  /\ user \in UserChoices
  /\ customers \in CustomerChoices
  /\ invoices = [r \in Reqs |-> NoInvoice]
  /\ invoiceItems = <<>>
  /\ paymentIntents = <<>>
  /\ \E body \in ProductsBodies, email \in EmailChoices :
       pr = [r \in Reqs |-> IF r = 1
                            THEN [NewRequest(body.cart, body.tip, email)
                                    EXCEPT !.tipKind = body.tipKind]
                            ELSE IdleRequest]

ProductsStep(r) ==
  \/ PBegin(r)
  \/ PValidateAccount(r)
  \/ PEnsureTippingSkip(r)
  \/ PFindCustomer(r)
  \/ PCreateCustomer(r)
  \/ PCreateInvoice(r)
  \/ PValidatePrice(r)
  \/ PCreateItem(r)
  \/ PRollbackDelete(r)
  \/ PAddTip(r)
  \/ PFinalize(r)
  \/ PCreateIntent(r)
  \/ PAttach(r)

NextProducts == \E r \in Reqs : ProductsStep(r)

SpecProducts == InitProducts /\ [][NextProducts]_vars

----------------------------------------------------------------------------
(* The batch specification: carts of up to MaxItems items, and two requests *)
(* that carry the same customer email                                       *)

\* price_A once, price_B twice and the recurring price once
BatchItemChoices ==
  { [priceId |-> "price_A", quantity |-> 1], [priceId |-> "price_B", quantity |-> 2],
    [priceId |-> "price_R", quantity |-> 1] }

BatchCarts == SeqsUpTo(BatchItemChoices, MaxItems) \ {<<>>}

\* the second request: none, or, next to a first request of one item, a
\* request of one item for the same customer
SecondRequests(cart, email) ==
  {IdleRequest} \cup
  (IF Len(cart) = 1
   THEN {NewRequest(<<[priceId |-> "price_A", quantity |-> 1]>>, 0, email)}
   ELSE {})

InitBatch ==
  /\ remote = NoCalls
  /\ terminal = NoTerminal
  /\ gr = IdleGrouping
  /\ ci = [r \in Reqs |-> IdleIntent]
  /\ tx = IdleTransactions
  /\ rf = [r \in Reqs |-> IdleRefund]
  /\ refunds = <<>>
  /\ charges = <<>>
  /\ tz = UTCZone
  /\ st = IdleStats
  /\ user = ActiveUser
  /\ customers \in CustomerChoices
  /\ invoices = [r \in Reqs |-> NoInvoice]
  /\ invoiceItems = <<>>
  /\ paymentIntents = <<>>
  /\ \E cart \in BatchCarts, tip \in TipChoices :
       \E second \in SecondRequests(cart, "a@x.io") :
         pr = [r \in Reqs |-> IF r = 1 THEN NewRequest(cart, tip, "a@x.io")
                              ELSE second]

SpecBatch == InitBatch /\ [][NextProducts]_vars

----------------------------------------------------------------------------
(* The grouping specification: groupChargesByDateService over lists of      *)
(* charges created around a UTC midnight                                    *)

\* the first and the last second of 2025-12-14 and the first of 2025-12-15
GroupInstants ==
  { DaysFromCivil(2025, 12, 14) * SecPerDay,
    DaysFromCivil(2025, 12, 14) * SecPerDay + SecPerDay - 1,
    DaysFromCivil(2025, 12, 15) * SecPerDay }

\* a charge of 500 with any status and either value of paid
GroupChargeChoices ==
  { [NoCharge EXCEPT !.created = created, !.amount = 500, !.status = status,
                     !.paid = paid] :
      created \in GroupInstants, status \in {"succeeded", "failed"}, paid \in BOOLEAN }

InitGrouping ==
  /\ remote = NoCalls
  /\ terminal = NoTerminal
  /\ ci = [r \in Reqs |-> IdleIntent]
  /\ tx = IdleTransactions
  /\ rf = [r \in Reqs |-> IdleRefund]
  /\ refunds = <<>>
  /\ charges = <<>>
  /\ tz \in Zones
  /\ st = IdleStats
  /\ user = ActiveUser
  /\ customers = <<>>
  /\ invoices = [r \in Reqs |-> NoInvoice]
  /\ invoiceItems = <<>>
  /\ paymentIntents = <<>>
  /\ pr = [r \in Reqs |-> IdleRequest]
  /\ \E cs \in SeqsUpTo(GroupChargeChoices, MaxGroup) : gr = NewGrouping(cs)

NextGrouping == GroupCharges

SpecGrouping == InitGrouping /\ [][NextGrouping]_vars

----------------------------------------------------------------------------
(* The refund specification: two requests over one charge *)

\* the charge of the account: 1000, of which nothing, 300 or all of it is
\* refunded already, or one whose amount_refunded is missing
RefundHistories ==
  { <<[NoCharge EXCEPT !.id = <<"ch", 1>>, !.amount = 1000, !.status = "succeeded",
                       !.paid = TRUE, !.amount_refunded = refunded]>> :
    refunded \in {NotANumber, 0, 300, 1000} }

ChargeIdChoices ==
  { [type |-> "string", value |-> <<"ch", 1>>],
    [type |-> "string", value |-> <<"ch", 9>>],
    [type |-> "string", value |-> <<>>],
    [type |-> "number", value |-> <<1>>],
    [type |-> "undefined", value |-> <<>>] }

ReasonChoices == {"", "duplicate", "because"}

BodyAmountChoices == {NotANumber, 50}

RefundRequests ==
  { NewRefundRequest(chargeId, reason, bodyAmount) :
      chargeId \in ChargeIdChoices, reason \in ReasonChoices,
      bodyAmount \in BodyAmountChoices }

InitRefund ==
  /\ remote = NoCalls
  /\ terminal = NoTerminal
  /\ gr = IdleGrouping
  /\ ci = [r \in Reqs |-> IdleIntent]
  /\ tx = IdleTransactions
  /\ customers = <<>>
  /\ invoices = [r \in Reqs |-> NoInvoice]
  /\ invoiceItems = <<>>
  /\ paymentIntents = <<>>
  /\ pr = [r \in Reqs |-> IdleRequest]
  /\ tz = UTCZone
  /\ st = IdleStats
  /\ user \in UserChoices
  /\ charges \in RefundHistories
  /\ refunds = <<>>
  /\ \E first \in RefundRequests, second \in RefundRequests \cup {IdleRefund} :
       rf = [r \in Reqs |-> IF r = 1 THEN first ELSE second]

RefundStep(r) == RBegin(r) \/ RGetCharge(r) \/ RCreateRefund(r)

NextRefund == \E r \in Reqs : RefundStep(r)

SpecRefund == InitRefund /\ [][NextRefund]_vars

----------------------------------------------------------------------------
(* The create-intent specification: two requests *)

\* 12.34, 0.50 and 9.996 of the currency unit, nothing, zero and a negative amount
AmountChoices == {NotANumber, 0, 0 - 5000, 500, 9996, 12340}

\* the metadata of the caller: none, an order reference, and a userId
MetadataChoices ==
  { [key \in {} |-> ""], [orderId |-> "order_7"], [userId |-> "user_2"],
    [userId |-> "user_2", customerEmail |-> "b@x.io"] }

CustomerDetailsChoices ==
  { [email |-> e, name |-> n, phone |-> "", zip |-> ""] :
      e \in EmailChoices, n \in {"", "Ann"} }

\* a reader that is no internet reader, and an internet reader with
\* neither id, with readerId, with locationId and with both
ConnectionChoices ==
  { [connectionType |-> "tapToPay", readerId |-> "tmr_1", locationId |-> ""],
    [connectionType |-> "internet", readerId |-> "", locationId |-> ""],
    [connectionType |-> "internet", readerId |-> "tmr_1", locationId |-> ""],
    [connectionType |-> "internet", readerId |-> "", locationId |-> "tml_1"],
    [connectionType |-> "internet", readerId |-> "tmr_1", locationId |-> "tml_1"] }

\* the reader with and without a location, the location with and without a
\* configuration
TerminalChoices ==
  { [NoTerminal EXCEPT !.readerLocation = location, !.configuration_overrides = overrides] :
      location \in {"", "tml_1"}, overrides \in {<<>>, <<"tmc", 0>>} }

IntentRequests ==
  { WithReader(NewIntentRequest(amount, metadata, details), connection) :
      amount \in AmountChoices, metadata \in MetadataChoices,
      details \in CustomerDetailsChoices, connection \in ConnectionChoices }

InitIntent ==
  /\ remote = NoCalls
  /\ terminal \in TerminalChoices
  /\ gr = IdleGrouping
  /\ tx = IdleTransactions
  /\ rf = [r \in Reqs |-> IdleRefund]
  /\ refunds = <<>>
  /\ charges = <<>>
  /\ tz = UTCZone
  /\ st = IdleStats
  /\ customers = <<>>
  /\ invoices = [r \in Reqs |-> NoInvoice]
  /\ invoiceItems = <<>>
  /\ paymentIntents = <<>>
  /\ pr = [r \in Reqs |-> IdleRequest]
  /\ user \in UserChoices
  /\ \E first \in IntentRequests :
       ci = [r \in Reqs |-> IF r = 1 THEN first ELSE IdleIntent]

IntentStep(r) ==
  \/ CBegin(r)
  \/ CValidateAccount(r)
  \/ CEnsureTippingSkip(r)
  \/ CTipReader(r)
  \/ CTipLocation(r)
  \/ CTipCreateConfiguration(r)
  \/ CTipUpdateLocation(r)
  \/ CCreateIntent(r)

NextIntent == \E r \in Reqs : IntentStep(r)

SpecIntent == InitIntent /\ [][NextIntent]_vars

----------------------------------------------------------------------------
(* The transactions specification: one request over a small charge history *)

InitTransactions ==
  /\ remote = NoCalls
  /\ terminal = NoTerminal
  /\ gr = IdleGrouping
  /\ ci = [r \in Reqs |-> IdleIntent]
  /\ rf = [r \in Reqs |-> IdleRefund]
  /\ refunds = <<>>
  /\ customers = <<>>
  /\ invoices = [r \in Reqs |-> NoInvoice]
  /\ invoiceItems = <<>>
  /\ paymentIntents = <<>>
  /\ pr = [r \in Reqs |-> IdleRequest]
  /\ st = IdleStats
  /\ tz \in Zones
  /\ \E w \in Windows :
       /\ charges \in ChargeHistories(w)
       /\ \/ /\ user = ActiveUser
             /\ \E date \in DateChoices(w) \cup MalformedDates(w) :
                  tx = NewTransactionsRequest(date, MkDate(WindowDay(w, 2), 15 * HourMs))
          \/ /\ user \in UserChoices \ {ActiveUser}
             /\ charges = <<>>
             /\ tx = NewTransactionsRequest(<<>>, MkDate(WindowDay(w, 2), 15 * HourMs))

NextTransactions == TBegin \/ TFetchPage

SpecTransactions == InitTransactions /\ [][NextTransactions]_vars

----------------------------------------------------------------------------
(* Properties of create-intent-from-products *)

\* the ids of the invoice items the request r created (they carry its invoice)
ItemsOf(r) == {i \in 1..Len(invoiceItems) : invoiceItems[i].invoice = r
                                            /\ pr[r].invoiceId = r}

CartItemsOf(r) == {i \in ItemsOf(r) : invoiceItems[i].kind = "price"}

IntentsOf(r) == {i \in 1..Len(paymentIntents) : paymentIntents[i].request = r}

\* the request ended in the catch block of the line-item loop
EndedOnItemFailure(r) == pr[r].pc = "done" /\ pr[r].failKind # ""

C2_CommittedOrRolledBack ==
  \A r \in Reqs :
    pr[r].pc = "done" =>
      \/ invoices[r].status = "open"
      \/ \A i \in ItemsOf(r) : invoiceItems[i].deleted

RECURSIVE CartTotal(_)
\* the sum of unit amount times quantity over the cart
CartTotal(cart) ==
  IF cart = <<>> THEN 0
  ELSE UnitAmount(Head(cart).priceId) * Head(cart).quantity + CartTotal(Tail(cart))

Succeeded(r) == pr[r].pc = "done" /\ pr[r].response.status = "success"

\* C9: on success the request has created exactly one payment intent; its
\* amount is the finalized invoice's total and its currency the invoice's; the
\* total is the sum of the cart line items plus the tip when tipAmount > 0,
\* and the tip line item is the last item of the invoice.
C9_IntentAmountIsInvoiceTotal ==
  \A r \in Reqs :
    Succeeded(r) =>
      /\ Cardinality(IntentsOf(r)) = 1
      /\ invoices[r].status = "open"
      /\ \A i \in IntentsOf(r) :
           /\ paymentIntents[i].amount = invoices[r].total
           /\ paymentIntents[i].currency = invoices[r].currency
      /\ invoices[r].total =
           CartTotal(pr[r].cartItems) + (IF pr[r].tipAmount > 0 THEN pr[r].tipAmount ELSE 0)
      /\ Len(invoices[r].lines) =
           Len(pr[r].cartItems) + (IF pr[r].tipAmount > 0 THEN 1 ELSE 0)
      /\ \A n \in 1..Len(invoices[r].lines) :
           invoiceItems[invoices[r].lines[n]].kind = "tip" <=>
             (pr[r].tipAmount > 0 /\ n = Len(invoices[r].lines))

\* C9 witness: two one-time items and a tip of 200
C9_Witness ==
  /\ Succeeded(1)
  /\ Len(pr[1].cartItems) = 2
  /\ pr[1].cartItems[1].priceId # pr[1].cartItems[2].priceId
  /\ pr[1].tipAmount = 200
  /\ \E i \in IntentsOf(1) :
       paymentIntents[i].amount = CartTotal(pr[1].cartItems) + 200

----------------------------------------------------------------------------
(* Properties of the statistics flow *)

\* the statistics request answered with its data
StatsAnswered == st.pc = "done" /\ st.error = NoError

\* the fetch of the selected day has returned
SingleFetched == st.phase = "trend" \/ StatsAnswered

\* the fetch of the trend range has returned
TrendFetched == StatsAnswered /\ st.phase = "trend"

\* the charges.list calls of one fetch, in the order they were made
CallsOf(phase) == SelectSeq(st.calls, LAMBDA c : c.phase = phase)

\* the charges of the upstream created in [gte, lte], in the upstream's order
ChargesIn(gte, lte) ==
  SelectSeq(charges, LAMBDA c : gte <= c.created /\ c.created <= lte)

\* the calls of one fetch follow the cursor protocol
CursorProtocol(cs) ==
  /\ cs # <<>> => cs[1].params.starting_after = NoCursor
  /\ \A i \in 2..Len(cs) :
       /\ cs[i - 1].has_more
       /\ cs[i - 1].ids # <<>>
       /\ cs[i].params.starting_after = cs[i - 1].ids[Len(cs[i - 1].ids)]
       /\ cs[i].params.gte = cs[1].params.gte
       /\ cs[i].params.lte = cs[1].params.lte
  /\ \A i \in 1..Len(cs) : cs[i].params.limit = 100

\* a returned fetch ended at its first page without has_more and returned the
\* charges of its interval, each once, in page order
FetchComplete(cs, result) ==
  /\ cs # <<>>
  /\ ~cs[Len(cs)].has_more
  /\ \A i \in 1..(Len(cs) - 1) : cs[i].has_more
  /\ result = ChargesIn(cs[1].params.gte, cs[1].params.lte)
  /\ Cardinality({result[i].id : i \in 1..Len(result)}) = Len(result)

\* C3: fetchChargesFromStripeService returns exactly the charges of its
\* interval, each once and in page order, whatever the number of pages: the
\* first request carries no cursor, every later one carries the id of the last
\* item of the previous page, and the fetch stops at the first page that
\* reports has_more false.
C3_PaginationComplete ==
  /\ CursorProtocol(CallsOf("single"))
  /\ CursorProtocol(CallsOf("trend"))
  /\ SingleFetched => FetchComplete(CallsOf("single"), st.singleDayCharges)
  /\ TrendFetched => FetchComplete(CallsOf("trend"), st.trendCharges)

\* a trend fetch of two pages or more that returned several charges
C3_Witness ==
  /\ TrendFetched
  /\ Len(CallsOf("trend")) >= 2
  /\ Len(st.trendCharges) >= 2
  /\ Len(st.trendCharges) < Len(charges)



\* the two bucket lists of the answer, each with the charges it was built
\* from and the first and last day of its range
AnsweredRanges ==
  {[stats |-> st.response.data.singleDay.stats,
    summary |-> st.response.data.singleDay.summary,
    fetched |-> st.singleDayCharges,
    first |-> st.selectedDate.day, last |-> st.selectedDate.day]}
  \cup
  (IF ShouldIncludeTrend(st.includeTrend)
   THEN {[stats |-> st.response.data.trendData.stats,
          summary |-> st.response.data.trendData.summary,
          fetched |-> st.trendCharges,
          first |-> st.selectedDate.day - (st.trendDays - 1),
          last |-> st.selectedDate.day]}
   ELSE {})

\* the sum of one field over the buckets of a list
TotalOf(stats, field) ==
  LET RECURSIVE upTo(_)
      upTo(n) == IF n = 0 THEN 0 ELSE upTo(n - 1) + stats[n][field]
  IN upTo(Len(stats))

\* the fetched charges created on one UTC day
ChargesOfDay(fetched, date) ==
  SelectSeq(fetched, LAMBDA c : CivilFromDays(c.created \div SecPerDay) = date)

\* the sum of charge.amount over a list of charges
AmountOf(cs) ==
  LET RECURSIVE upTo(_)
      upTo(n) == IF n = 0 THEN 0 ELSE upTo(n - 1) + cs[n].amount
  IN upTo(Len(cs))

\* C4 as stated: in every answer the counts of the day-filled buckets add up
\* to the number of charges the fetch returned for the range, and the
\* totalAmount of each bucket is the sum of charge.amount over the fetched
\* charges of its UTC day.
C4_CountsMatchCharges ==
  StatsAnswered =>
    \A range \in AnsweredRanges :
      /\ TotalOf(range.stats, "count") = Len(range.fetched)
      /\ \A i \in 1..Len(range.stats) :
           range.stats[i].totalAmount =
             AmountOf(ChargesOfDay(range.fetched, range.stats[i].date))

\* C5 as stated: the filled list holds one bucket per calendar day of the
\* range, in ascending order: its length is the inclusive day count, entry i
\* is the bucket of day first + i - 1, the one grouped from the charges of
\* that day when there are any and else one with all its counters 0.
C5_OneBucketPerDay ==
  StatsAnswered =>
    \A range \in AnsweredRanges :
      /\ Len(range.stats) = range.last - range.first + 1
      /\ \A i \in 1..Len(range.stats) :
           LET date == CivilFromDays(range.first + i - 1)
           IN /\ range.stats[i].date = date
              /\ ChargesOfDay(range.fetched, date) = <<>> =>
                   /\ range.stats[i].count = 0
                   /\ range.stats[i].totalAmount = 0
                   /\ range.stats[i].successful = 0
                   /\ range.stats[i].failed = 0
                   /\ range.stats[i].totalTips = 0
              /\ ChargesOfDay(range.fetched, date) # <<>> =>
                   range.stats[i] = groupChargesByDateService(range.fetched)[date]

\* C6: every summary of an answer carries the sums of count, totalAmount and
\* totalTips over its bucket list, and its averageAmount is totalAmount /
\* totalPayments rounded to the nearest integer (halves up), 0 when there is
\* no payment: averageAmount * totalPayments is within totalPayments / 2 of
\* totalAmount.
C6_SummaryOfBuckets ==
  StatsAnswered =>
    \A range \in AnsweredRanges :
      LET n     == TotalOf(range.stats, "count")
          total == TotalOf(range.stats, "totalAmount")
          avg   == range.summary.averageAmount
      IN /\ range.summary.totalPayments = n
         /\ range.summary.totalAmount = total
         /\ range.summary.totalTips = TotalOf(range.stats, "totalTips")
         /\ avg \in Nat
         /\ n = 0 => avg = 0
         /\ n > 0 => /\ 2 * (avg * n - total) <= n
                     /\ 2 * (total - avg * n) < n

\* an answer whose trend holds three payments of 1700 in all: the average is
\* 566.67, rounded up to 567
C6_Witness ==
  /\ StatsAnswered
  /\ ShouldIncludeTrend(st.includeTrend)
  /\ st.response.data.trendData.summary.totalPayments = 3
  /\ st.response.data.trendData.summary.totalAmount = 1700
  /\ st.response.data.trendData.summary.averageAmount = 567

\* the request and the upstream of the scenario: date=2025-12-15,
\* includeTrend=true, days=3; one succeeded charge of 1000 on 2025-12-13, one
\* failed charge of 500 and one succeeded charge of 700 on 2025-12-15
C7_Scenario ==
  /\ st.date = <<2025, 12, 15>>
  /\ st.includeTrend = "true"
  /\ st.days = [given |-> TRUE, num |-> 3]
  /\ Len(charges) = 3
  /\ \E i, j, k \in 1..3 :
       /\ {i, j, k} = 1..3
       /\ charges[i].amount = 1000 /\ charges[i].status = "succeeded"
       /\ charges[i].paid
       /\ CivilFromDays(charges[i].created \div SecPerDay) = <<2025, 12, 13>>
       /\ charges[j].amount = 500 /\ charges[j].status = "failed"
       /\ CivilFromDays(charges[j].created \div SecPerDay) = <<2025, 12, 15>>
       /\ charges[k].amount = 700 /\ charges[k].status = "succeeded"
       /\ charges[k].paid
       /\ CivilFromDays(charges[k].created \div SecPerDay) = <<2025, 12, 15>>

\* the field of each bucket of a list
Column(stats, field) == [i \in 1..Len(stats) |-> stats[i][field]]

\* C7: the answer to the scenario's request has trend stats of exactly three
\* entries, for 12-13, 12-14 and 12-15, with counts [1,0,2], totalAmount
\* [1000,0,1200], successful [1,0,1], failed [0,0,1], and a trend summary of
\* totalPayments 3, totalAmount 2200, averageAmount 733.
C7_TrendOfScenario ==
  (StatsAnswered /\ C7_Scenario) =>
    LET trend == st.response.data.trendData
    IN /\ ~trend.isNull
       /\ Column(trend.stats, "date") =
            <<<<2025, 12, 13>>, <<2025, 12, 14>>, <<2025, 12, 15>>>>
       /\ Column(trend.stats, "count") = <<1, 0, 2>>
       /\ Column(trend.stats, "totalAmount") = <<1000, 0, 1200>>
       /\ Column(trend.stats, "successful") = <<1, 0, 1>>
       /\ Column(trend.stats, "failed") = <<0, 0, 1>>
       /\ trend.summary.totalPayments = 3
       /\ trend.summary.totalAmount = 2200
       /\ trend.summary.averageAmount = 733

\* the scenario's request answered on a server whose zone is not UTC
C7_Witness ==
  /\ StatsAnswered
  /\ C7_Scenario
  /\ tz = NewYorkZone
  /\ Len(st.trendCharges) = 3

----------------------------------------------------------------------------
(* Properties of the refund flow *)

\* C10: every refund createRefund asks the upstream for is for the charge of
\* the request and for its whole refundable balance as the request read it,
\* charge.amount minus charge.amount_refunded: the amount of the call is that
\* balance (a call without an amount, which the upstream reads as the whole
\* remaining balance, is made only when that balance is 0), whatever amount
\* the body of the request carried.
C10_RefundsWholeBalance ==
  \A n \in 1..Len(refunds) :
    LET call    == refunds[n]
        balance == call.read.amount -
                   (IF call.read.amount_refunded = NotANumber THEN 0
                    ELSE call.read.amount_refunded)
    IN /\ call.params.charge = call.read.id
       /\ call.params.charge = rf[call.request].chargeId.value
       /\ call.params.hasAmount => call.params.amount = balance
       /\ ~call.params.hasAmount => balance = 0
       /\ (call.bodyAmount # NotANumber /\ call.bodyAmount # balance) =>
            ~(call.params.hasAmount /\ call.params.amount = call.bodyAmount)

\* a request whose body asks for 50 refunds a charge of 1000 with 300 refunded
\* already: the refund issued is of 700
C10_Witness ==
  \E n \in 1..Len(refunds) :
    /\ refunds[n].ok
    /\ refunds[n].bodyAmount = 50
    /\ refunds[n].read.amount = 1000
    /\ refunds[n].read.amount_refunded = 300
    /\ refunds[n].params.amount = 700
    /\ rf[refunds[n].request].response.data.amount = 700

----------------------------------------------------------------------------
(* Properties of the calls a request issues *)

\* the calls to the remote platform a request has issued
PlatformCalls(key) == SelectSeq(remote[key], LAMBDA c : c # AccountRead)

\* the account reads a request has issued
AccountReads(key) == SelectSeq(remote[key], LAMBDA c : c = AccountRead)

\* the refund request was rejected for its reason
ReasonRejected(r) ==
  /\ rf[r].pc = "done"
  /\ rf[r].response.http = 400
  /\ rf[r].response.code = "invalid-argument"
  /\ rf[r].response.message =
       <<"Reason must be one of: duplicate, fraudulent, requested_by_customer">>

\* C11 as stated: a refund request rejected for a reason outside duplicate,
\* fraudulent, requested_by_customer has issued no remote call: neither the
\* charge retrieval nor the refund creation.
C11_ReasonRejectedBeforeRemote ==
  \A r \in Reqs :
    ReasonRejected(r) => PlatformCalls(<<"refund", r>>) = <<>>

\* every request of the model: its key, its position, its error and its answer
Requests ==
  {[key |-> <<"products", r>>, pc |-> pr[r].pc, error |-> pr[r].error,
    response |-> pr[r].response] : r \in Reqs}
  \cup {[key |-> <<"intent", r>>, pc |-> ci[r].pc, error |-> ci[r].error,
         response |-> ci[r].response] : r \in Reqs}
  \cup {[key |-> <<"refund", r>>, pc |-> rf[r].pc, error |-> rf[r].error,
         response |-> rf[r].response] : r \in Reqs}
  \cup {[key |-> <<"statistics", 1>>, pc |-> st.pc, error |-> st.error,
         response |-> st.response],
        [key |-> <<"transactions", 1>>, pc |-> tx.pc, error |-> tx.error,
         response |-> tx.response]}

\* the user of the request has no connected account, or one that is not active
AccountUnfit == user.stripeAccountId = "" \/ user.stripeAccountStatus # "active"

\* C12 as stated: a request that has read the account of a user without a
\* connected, active account is rejected with code failed-precondition, after
\* that single read and without any call to the remote platform.
C12_RejectedAsFailedPrecondition ==
  \A q \in Requests :
    (AccountUnfit /\ AccountReads(q.key) # <<>>) =>
      /\ q.pc = "done"
      /\ q.response.status = "error"
      /\ q.response.hasCode
      /\ q.response.code = "failed-precondition"
      /\ Len(AccountReads(q.key)) = 1
      /\ PlatformCalls(q.key) = <<>>

\* the request has got past the validation of the body and of the account
AccountPassed(r) == AccountReads(<<"products", r>>) # <<>> /\ ~AccountUnfit

\* C13 as stated: a create-intent-from-products request without a customer
\* email makes no remote call for the customer and goes on without one: once
\* it has ended it has created its invoice, without a customer.
C13_NoEmailProceeds ==
  \A r \in Reqs :
    (pr[r].email = "" /\ AccountPassed(r) /\ pr[r].pc = "done") =>
      /\ "customers.list" \notin {remote[<<"products", r>>][i] :
                                    i \in 1..Len(remote[<<"products", r>>])}
      /\ invoices[r].status # "none"
      /\ invoices[r].customer = ""

\* the request has issued the attach call
AttachIssued(r) ==
  \E i \in 1..Len(remote[<<"products", r>>]) :
    remote[<<"products", r>>][i] = "invoices.attachPayment"

\* C14: whether the attach call fails or not, the request ends with the
\* success envelope carrying clientSecret, paymentIntentId and invoiceId, the
\* invoice stays finalized, its items stay and so does the payment intent.
C14_AttachFailureTolerated ==
  \A r \in Reqs :
    AttachIssued(r) =>
      /\ pr[r].pc = "done"
      /\ pr[r].response.http = 200
      /\ pr[r].response.status = "success"
      /\ pr[r].response.data.clientSecret = "secret"
      /\ pr[r].response.data.paymentIntentId \in IntentsOf(r)
      /\ pr[r].response.data.invoiceId = pr[r].invoiceId
      /\ invoices[r].status = "open"
      /\ \A i \in ItemsOf(r) : ~invoiceItems[i].deleted /\ invoiceItems[i].delCalls = 0
      /\ invoices[r].lines = InvoiceLines(invoiceItems, r, 1)

\* a request whose attach call failed: the invoice carries no payment
C14_Witness ==
  \E r \in Reqs :
    /\ AttachIssued(r)
    /\ invoices[r].payment = 0
    /\ pr[r].response.status = "success"

\* C15 as stated: every error answer carries a status, a message and a code.
C15_ErrorEnvelopeHasCode ==
  \A q \in Requests :
    (q.pc = "done" /\ q.response.status # "success") =>
      /\ q.response.status = "error"
      /\ q.response.message # <<>>
      /\ q.response.hasCode
      /\ q.response.code # ""

\* the request ended on an upstream construction error: a price that is not
\* one-time, a finalized invoice without lines, or one whose total is zero
ConstructionError(r) ==
  /\ pr[r].pc = "done"
  /\ \/ pr[r].failKind = "type"
     \/ pr[r].error.message = <<"Invoice items were created but not attached to invoice">>
     \/ pr[r].error.message = <<"Invoice total is zero">>

\* C16 as stated: an upstream construction error is answered with code
\* internal-error, and the invoice items the request created are deleted.
C16_ReportedAsInternalError ==
  \A r \in Reqs :
    ConstructionError(r) =>
      /\ pr[r].response.hasCode
      /\ pr[r].response.code = "internal-error"
      /\ \A i \in ItemsOf(r) : invoiceItems[i].deleted

\* C17 as stated: the metadata of every payment intent carries the userId of
\* the authenticated user.
C17_MetadataOwnedByUser ==
  \A i \in 1..Len(paymentIntents) :
    /\ "userId" \in DOMAIN paymentIntents[i].metadata
    /\ paymentIntents[i].metadata.userId = UserId

----------------------------------------------------------------------------
(* Properties of the date and days parameters *)

\* the parts are the year, month and day of a calendar date
WellFormedDate(date) ==
  /\ Len(date) = 3
  /\ \A i \in 1..3 : date[i] # NotANumber
  /\ date[2] \in 1..12
  /\ date[3] >= 1
  /\ CivilFromDays(DaysFromCivil(date[1], date[2], date[3])) = date

\* the date parameter of the statistics and of the transactions request
DatedRequests ==
  {[key |-> <<"statistics", 1>>, pc |-> st.pc, date |-> st.date,
    response |-> st.response],
   [key |-> <<"transactions", 1>>, pc |-> tx.pc, date |-> tx.date,
    response |-> tx.response]}

\* C18 as stated: only an absent date or a well-formed calendar date leads to
\* a charge-list call; a request with any other date string ends with 400
\* invalid-argument.
C18_MalformedDateRejected ==
  \A q \in DatedRequests :
    (q.date # <<>> /\ ~WellFormedDate(q.date) /\ ~AccountUnfit) =>
      /\ PlatformCalls(q.key) = <<>>
      /\ q.pc = "done" =>
           /\ q.response.http = 400
           /\ q.response.code = "invalid-argument"

\* the window length the days parameter stands for: 7 when it is absent or
\* no number, 1 when it is below 1, else the number itself
WindowLength(days) ==
  IF ~days.given \/ days.num = NotANumber THEN 7
  ELSE IF days.num < 1 THEN 1
  ELSE days.num

\* C19 as stated: in every answer with a trend, the window length is the one
\* the days parameter stands for, it is at least 1, trendData.days and the
\* number of trend buckets both equal it, and the last bucket is the one of
\* the selected date.
C19_TrendWindowLength ==
  (StatsAnswered /\ ShouldIncludeTrend(st.includeTrend)) =>
    LET trend == st.response.data.trendData
    IN /\ WindowLength(st.days) >= 1
       /\ trend.days = WindowLength(st.days)
       /\ Len(trend.stats) = WindowLength(st.days)
       /\ trend.stats[Len(trend.stats)].date = CivilFromDays(st.selectedDate.day)

----------------------------------------------------------------------------
(* Properties of a failing page request *)

\* a charges.list call of the statistics request has failed
PageFailed == st.error.message = <<"upstream", "charges.list">>

\* the charges.list calls the statistics request has issued
ListCalls == SelectSeq(remote[<<"statistics", 1>>], LAMBDA c : c = "charges.list")

\* C20: once a page request of a statistics fetch has failed, the request has
\* ended with an error answer carrying the upstream message and no data, and
\* the failed call was its last call: it was issued once, after the pages that
\* were answered, and nothing was issued after it.
C20_PageFailureFailsRequest ==
  PageFailed =>
    /\ st.pc = "done"
    /\ st.response.status = "error"
    /\ st.response.http = 500
    /\ st.response.message = <<"upstream", "charges.list">>
    /\ st.response.data = <<>>
    /\ Len(ListCalls) = Len(st.calls) + 1
    /\ remote[<<"statistics", 1>>][Len(remote[<<"statistics", 1>>])] = "charges.list"

\* the page request that failed was a later one of the trend range, after the
\* single-day range and a first trend page with charges had been fetched
C20_Witness ==
  /\ PageFailed
  /\ st.phase = "trend"
  /\ Len(CallsOf("trend")) >= 1
  /\ st.allCharges # <<>>
  /\ st.singleDayCharges # <<>>

----------------------------------------------------------------------------
(* Properties of the refund requests sent upstream *)

\* C28: every refunds.create request carries an explicit amount, the balance
\* charge.amount - charge.amount_refunded of the charge as retrieved; for a
\* charge whose balance is 0 no request without an amount is sent.
C28_ExplicitAmount ==
  \A i \in 1..Len(refunds) :
    /\ refunds[i].params.hasAmount
    /\ refunds[i].params.amount = AvailableAmount(refunds[i].read)

\* the amount a refunds.create call asks for; a call without an amount asks
\* for the balance of the charge
RequestedAmount(call) ==
  IF call.params.hasAmount THEN call.params.amount ELSE AvailableAmount(call.read)

\* two requests for the same charge, each of which retrieved the charge
\* before the other one's refunds.create call
Interleaved ==
  /\ Len(refunds) = 2
  /\ refunds[1].request # refunds[2].request
  /\ refunds[1].params.charge = refunds[2].params.charge
  /\ refunds[1].seen = 0
  /\ refunds[2].seen = 0

\* C29: two refund requests for the same charge that run interleaved between
\* retrieval and creation never ask upstream, together, for more than the
\* balance the charge had before the first of them started.
C29_ConcurrentRefundsWithinBalance ==
  Interleaved =>
    RequestedAmount(refunds[1]) + RequestedAmount(refunds[2])
      <= AvailableAmount(refunds[1].read)

----------------------------------------------------------------------------
(* Properties of the finalization step *)

\* the finalization of the request's invoice answered with an invoice that
\* lists no line or whose total is 0
FinalizedEmpty(r) ==
  /\ pr[r].invoiceId = r
  /\ invoices[r].status = "open"
  /\ (Len(invoices[r].lines) = 0 \/ invoices[r].total = 0)

\* C23: a finalized invoice with no line or with a total of 0 ends the request
\* with status 500 and without a payment intent; a payment intent exists only
\* for a finalized invoice with at least one line and a total that is not 0.
C23_NoIntentForEmptyInvoice ==
  \A r \in Reqs :
    /\ FinalizedEmpty(r) =>
         /\ pr[r].pc = "done"
         /\ pr[r].response.status = "error"
         /\ pr[r].response.http = 500
         /\ IntentsOf(r) = {}
    /\ \A i \in IntentsOf(r) :
         /\ invoices[r].status = "open"
         /\ Len(invoices[r].lines) >= 1
         /\ invoices[r].total # 0
         /\ paymentIntents[i].amount = invoices[r].total

\* an invoice whose items were all created was finalized with a total of 0
C23_Witness ==
  \E r \in Reqs :
    /\ FinalizedEmpty(r)
    /\ Len(invoices[r].lines) >= 1
    /\ pr[r].pc = "done"
    /\ pr[r].response.http = 500
    /\ pr[r].response.message = <<"Invoice total is zero">>

----------------------------------------------------------------------------
(* Properties of the line-item loop *)

\* the calls of the request that the line-item loop and the tip step issue,
\* in the order they were issued
LoopCalls(r) ==
  SelectSeq(remote[<<"products", r>>],
            LAMBDA c : c \in {"prices.retrieve", "invoiceItems.create", "invoiceItems.del"})

\* the calls alternate: the price of an item is retrieved, then its invoice
\* item is created, and only then the next price is retrieved; once a delete
\* has been issued nothing but deletes follow
RetrieveThenCreate(calls, created, cartLength) ==
  \A p \in 1..Len(calls) :
    /\ calls[p] = "prices.retrieve" =>
         /\ p % 2 = 1
         /\ p <= 2 * created + 1
         /\ p > 1 => calls[p - 1] = "invoiceItems.create"
    /\ (calls[p] = "invoiceItems.create" /\ p <= 2 * cartLength) =>
         /\ p % 2 = 0
         /\ calls[p - 1] = "prices.retrieve"
    /\ calls[p] = "invoiceItems.del" =>
         \A q \in p..Len(calls) : calls[q] = "invoiceItems.del"

\* C21: the cart items are processed in input order; the price of an item is
\* retrieved before its invoice item is created; item i+1 is not touched
\* before the invoice item of item i exists; the deletes of the rollback are
\* issued in the order the invoice items were created.
C21_ItemsInOrder ==
  \A r \in Reqs :
    LET ids == pr[r].invoiceItemIds
        cart == pr[r].cartItems
    IN /\ Len(ids) <= Len(cart)
       /\ \A i \in 1..Len(ids) :
            /\ invoiceItems[ids[i]].invoice = r
            /\ invoiceItems[ids[i]].kind = "price"
            /\ invoiceItems[ids[i]].price = cart[i].priceId
            /\ invoiceItems[ids[i]].quantity = cart[i].quantity
            /\ i > 1 => ids[i - 1] < ids[i]
       /\ pr[r].pc \in {"price", "item"} => pr[r].k = Len(ids) + 1
       /\ RetrieveThenCreate(LoopCalls(r), Len(ids), Len(cart))
       /\ \A i \in 1..Len(ids) :
            invoiceItems[ids[i]].delCalls =
              IF pr[r].failKind # "" /\ i < pr[r].j THEN 1 ELSE 0

\* a request that failed at its third item, in the middle of the rollback:
\* the delete of the first invoice item is issued, that of the second is not
C21_Witness ==
  /\ pr[1].pc = "rollback"
  /\ pr[1].k = 3
  /\ pr[1].j = 2
  /\ Len(pr[1].invoiceItemIds) = 2
  /\ invoiceItems[pr[1].invoiceItemIds[1]].delCalls = 1
  /\ invoiceItems[pr[1].invoiceItemIds[2]].delCalls = 0

\* the error the line-item loop caught for the item at position k
CaughtError(r) ==
  CASE pr[r].failKind = "retrieve" -> NewError(<<"upstream", "prices.retrieve">>)
    [] pr[r].failKind = "type" ->
         validatePriceIsOneTime(pr[r].cartItems[pr[r].k].priceId,
                                PriceType(pr[r].cartItems[pr[r].k].priceId))
    [] OTHER -> NewError(<<"upstream", "invoiceItems.create">>)

\* C22: when the rollback ends, a delete has been attempted for every invoice
\* item the loop created, whether or not an earlier delete failed, and the
\* request fails with the error of the cart item that failed (its message,
\* its status code and its code, with the defaults of the loop), never with
\* the error of a delete.
C22_DeleteFailureMasksNothing ==
  \A r \in Reqs :
    EndedOnItemFailure(r) =>
      /\ \A i \in 1..Len(pr[r].invoiceItemIds) :
           invoiceItems[pr[r].invoiceItemIds[i]].delCalls = 1
      /\ pr[r].error = enhancedError(pr[r].cartItems[pr[r].k], CaughtError(r))
      /\ pr[r].response.status = "error"
      /\ pr[r].response.message = pr[r].error.message
      /\ pr[r].response.http = pr[r].error.statusCode

\* a request that failed at its third item on a recurring price: the delete
\* of the first invoice item failed, the second one was deleted all the same
C22_Witness ==
  /\ EndedOnItemFailure(1)
  /\ pr[1].failKind = "type"
  /\ Len(pr[1].invoiceItemIds) = 2
  /\ invoiceItems[pr[1].invoiceItemIds[1]].delFailures = 1
  /\ ~invoiceItems[pr[1].invoiceItemIds[1]].deleted
  /\ invoiceItems[pr[1].invoiceItemIds[2]].deleted
  /\ pr[1].error.code = "invalid-argument"
  /\ pr[1].response.http = 400

----------------------------------------------------------------------------
(* Properties of concurrent requests for one customer *)

\* the remote customers that carry this email
CustomersWithEmail(email) == {i \in 1..Len(customers) : customers[i].email = email}

\* C30: requests that carry the same customer email and run interleaved
\* between the customer lookup and the customer creation leave at most one
\* remote customer for that email, and all of them resolve to its id.
C30_OneCustomerPerEmail ==
  \A r1, r2 \in Reqs :
    (pr[r1].email # "" /\ pr[r1].email = pr[r2].email) =>
      /\ Cardinality(CustomersWithEmail(pr[r1].email)) <= 1
      /\ (pr[r1].customerId # "" /\ pr[r2].customerId # "") =>
           pr[r1].customerId = pr[r2].customerId

----------------------------------------------------------------------------
(* Properties of groupChargesByDateService *)

\* the UTC calendar day a unix timestamp falls on, as <<y, m, d>>
UTCDayOf(created) == CivilFromDays(created \div SecPerDay)

\* the positions of the argument's charges created on this UTC day
GroupedOn(day) ==
  {i \in 1..Len(gr.charges) : UTCDayOf(gr.charges[i].created) = day}

\* C24: in every bucket, successful counts the charges of that UTC day with
\* status succeeded and paid true, failed counts the other charges of that
\* day, and successful + failed = count; the key of a bucket is the UTC day
\* of its charges, and every charge is counted in exactly one bucket.
C24_BucketsSplitByOutcome ==
  gr.pc = "done" =>
    /\ DOMAIN gr.statsByDate =
         {UTCDayOf(gr.charges[i].created) : i \in 1..Len(gr.charges)}
    /\ \A day \in DOMAIN gr.statsByDate :
         LET bucket == gr.statsByDate[day]
         IN /\ bucket.date = day
            /\ bucket.count = Cardinality(GroupedOn(day))
            /\ bucket.successful =
                 Cardinality({i \in GroupedOn(day) :
                                gr.charges[i].status = "succeeded" /\ gr.charges[i].paid})
            /\ bucket.failed =
                 Cardinality({i \in GroupedOn(day) :
                                ~(gr.charges[i].status = "succeeded" /\ gr.charges[i].paid)})
            /\ bucket.successful + bucket.failed = bucket.count

\* three charges around the midnight between 2025-12-14 and 2025-12-15: one
\* paid and succeeded and one succeeded but not paid in the last second of
\* the 14th, one in the first second of the 15th
C24_Witness ==
  /\ gr.pc = "done"
  /\ Len(gr.charges) = 3
  /\ DOMAIN gr.statsByDate = {<<2025, 12, 14>>, <<2025, 12, 15>>}
  /\ gr.statsByDate[<<2025, 12, 14>>].count = 2
  /\ gr.statsByDate[<<2025, 12, 14>>].successful = 1
  /\ gr.statsByDate[<<2025, 12, 14>>].failed = 1
  /\ \E i \in GroupedOn(<<2025, 12, 14>>) :
       /\ gr.charges[i].status = "succeeded"
       /\ ~gr.charges[i].paid
       /\ gr.charges[i].created % SecPerDay = SecPerDay - 1

----------------------------------------------------------------------------
(* Properties of ensureLocationTippingConfig *)

TerminalCalls ==
  {"terminal.readers.retrieve", "terminal.locations.retrieve",
   "terminal.configurations.create", "terminal.locations.update"}

\* the calls of the create-intent request r, in the order they were issued
IntentCalls(r) == remote[<<"intent", r>>]

\* C25: ensureLocationTippingConfig never ends the request: whichever of its
\* steps fails, a request that passed the account validation goes on to the
\* paymentIntents.create call; it issues no call unless connectionType is
\* "internet", and it creates no configuration for a location that has one.
C25_TippingNeverFailsRequest ==
  \A r \in Reqs :
    /\ (ci[r].pc = "done" /\ ci[r].accountId # "") =>
         /\ IntentCalls(r) # <<>>
         /\ IntentCalls(r)[Len(IntentCalls(r))] = "paymentIntents.create"
    /\ ci[r].connectionType # "internet" =>
         \A p \in 1..Len(IntentCalls(r)) : IntentCalls(r)[p] \notin TerminalCalls
    /\ terminal.configuration_overrides = <<"tmc", 0>> => terminal.configurations = 0
    /\ \A p \in 1..Len(IntentCalls(r)) :
         IntentCalls(r)[p] = "terminal.configurations.create" =>
           /\ p > 1
           /\ IntentCalls(r)[p - 1] = "terminal.locations.retrieve"

\* an internet reader whose location has no configuration: the reader was
\* retrieved, the retrieval of the location failed, and the payment intent
\* was created all the same
C25_Witness ==
  /\ ci[1].pc = "done"
  /\ ci[1].connectionType = "internet"
  /\ terminal.configuration_overrides = <<>>
  /\ IntentCalls(1) = <<AccountRead, "terminal.readers.retrieve",
                        "terminal.locations.retrieve", "paymentIntents.create">>
  /\ ci[1].response.status = "success"

----------------------------------------------------------------------------
(* Properties of the fetch loop *)

\* the charges.list calls the transactions request has issued
ListCallsIssued ==
  Len(SelectSeq(remote[<<"transactions", 1>>], LAMBDA c : c = "charges.list"))

\* the transactions request ended on a failing charges.list call
ListCallFailed ==
  tx.pc = "done" /\ tx.error.message = <<"upstream", "charges.list">>

\* C27: the loop of fetchChargesFromStripeService ends at the first page
\* that reports has_more false or has no items, also when an empty page
\* reports has_more true; no two requests carry the same cursor; one request
\* is issued per page consumed; and the number of requests stays within the
\* number of charges plus one.
C27_FetchTerminates ==
  /\ \A i \in 1..(Len(tx.calls) - 1) : tx.calls[i].has_more /\ tx.calls[i].count > 0
  /\ (tx.pc = "fetch" /\ tx.calls # <<>>) =>
       tx.calls[Len(tx.calls)].has_more /\ tx.calls[Len(tx.calls)].count > 0
  /\ (tx.pc = "done" /\ tx.error = NoError) =>
       /\ tx.calls # <<>>
       /\ ~tx.calls[Len(tx.calls)].has_more \/ tx.calls[Len(tx.calls)].count = 0
  /\ \A i, j \in 1..Len(tx.calls) :
       i # j => tx.calls[i].starting_after # tx.calls[j].starting_after
  /\ ListCallsIssued = Len(tx.calls) + (IF ListCallFailed THEN 1 ELSE 0)
  /\ Len(tx.calls) <= Len(charges) + 1

\* a fetch of two pages that ended on an empty page reporting has_more true
C27_Witness ==
  /\ tx.pc = "done"
  /\ tx.error = NoError
  /\ Len(tx.calls) = 2
  /\ tx.calls[2].count = 0
  /\ tx.calls[2].has_more
  /\ ListCallsIssued = 2

----------------------------------------------------------------------------
(* Properties of the structural validation of the bodies *)

\* the body of the products request r has a structural error: cartItems is
\* empty, an item is null or has no priceId or no positive quantity, or
\* tipAmount is not a non-negative number
MalformedProductsBody(r) ==
  \/ Len(pr[r].cartItems) = 0
  \/ \E i \in 1..Len(pr[r].cartItems) :
       \/ IsNull(pr[r].cartItems[i])
       \/ pr[r].cartItems[i].priceId = ""
       \/ pr[r].cartItems[i].quantity <= 0
  \/ pr[r].tipKind # "number"
  \/ pr[r].tipAmount < 0

\* C26: a body with a structural error is answered with 400 invalid-argument
\* before the account read and before any remote call: the request issues no
\* call and never goes beyond its validation; for create-intent the error is
\* a missing, zero or negative amount.
C26_StructuralErrorsRejectedFirst ==
  \A r \in Reqs :
    /\ (pr[r].pc # "off" /\ MalformedProductsBody(r)) =>
         /\ pr[r].pc \in {"start", "done"}
         /\ remote[<<"products", r>>] = <<>>
         /\ pr[r].pc = "done" =>
              /\ pr[r].response.http = 400
              /\ pr[r].response.hasCode
              /\ pr[r].response.code = "invalid-argument"
    /\ (ci[r].pc # "off" /\ BadAmount(ci[r].amount)) =>
         /\ ci[r].pc \in {"start", "done"}
         /\ remote[<<"intent", r>>] = <<>>
         /\ ci[r].pc = "done" =>
              /\ ci[r].response.http = 400
              /\ ci[r].response.hasCode
              /\ ci[r].response.code = "invalid-argument"

============================================================================
